---- MODULE Spec2Model ----
(***************************************************************************)
(* Bookmark: context snapshots for a long-running assistant session.       *)
(*                                                                         *)
(* The model follows the storage directory (state.json, index.json, the    *)
(* snapshot files, LATEST.md, CONTEXT.md) through the three hook commands  *)
(* of the CLI: `snapshot` (captureSnapshot), `check` (time / threshold     *)
(* evaluators, then captureSnapshot) and `restore` (restoreContext).       *)
(* Every invocation is a short-lived process; one step of the model is one *)
(* file read or write of that process, so that overlapping hooks can be    *)
(* interleaved.  Times are Date.now() milliseconds, fractions are percent. *)
(***************************************************************************)
EXTENDS Integers, Sequences, FiniteSets, TLC

VARIABLES
    now,           \* Date.now(), milliseconds
    config,        \* the BookmarkConfig that loadConfig returns
    dirExists,     \* the storage directory exists
    statePresent,  \* state.json exists
    stateFile,     \* content of state.json (BookmarkState)
    snapFiles,     \* snapshots/<id>.json : snapshot id -> Snapshot
    index,         \* index.json : [snapshots, total_snapshots]
    latestMd,      \* LATEST.md : << >> or <<snapshot it was compressed from>>
    contextMd,     \* CONTEXT.md : << >> or <<snapshot it was written from>>
    pc,            \* per invocation: position in its handler
    inv,           \* per invocation: its command line / hook input
    loc,           \* per invocation: its local variables
    raced,         \* per invocation: another invocation wrote state.json
                   \* after this one loaded it
    fnIn,          \* argument of a pure function under test
    fnOut          \* its result

vars == <<now, config, dirExists, statePresent, stateFile, snapFiles, index,
          latestMd, contextMd, pc, inv, loc, raced, fnIn, fnOut>>

diskVars == <<dirExists, statePresent, stateFile, snapFiles, index, latestMd, contextMd>>

-----------------------------------------------------------------------------
(* Bounds of the model *)

NumProcs == 2
MaxSnapshots == 2
MaxCompactions == 2
MaxHistory == 1
MaxCount == 7
MaxChain == 3

(* Program constants *)

MAX_SESSION_HISTORY == 10
MaxActiveIndex == 50
ChainLimit == 5

(* The clock: it starts at StartTime and advances by a fraction of a second *)
(* or by 21 minutes, up to MaxNow.                                          *)
StartTime == 2000 * 1000
SubSecondMs == 2 * 300
LongGapMs == 21 * 60 * 1000
MaxNow == StartTime + LongGapMs + SubSecondMs

Procs == 1..NumProcs

Min(a, b) == IF a <= b THEN a ELSE b

-----------------------------------------------------------------------------
(* Configuration: DEFAULTS, and DEFAULTS overridden by                     *)
(* BOOKMARK_THRESHOLD=0.25,0.35                                            *)

DEFAULTS ==
    [ thresholds |-> <<20, 30, 40, 50, 60>>,
      maxThreshold |-> 60,
      intervalMinutes |-> 20,
      maxDecisions |-> 15,
      maxOpenItems |-> 10,
      maxFilesTracked |-> 20,
      maxErrorsTracked |-> 10,
      maxActiveSnapshots |-> 50,
      restoreOnSessionStart |-> TRUE ]

\* DEFAULTS overridden by a project config.json that lowers the caps
ProjectCapsConfig ==
    [ DEFAULTS EXCEPT !.maxDecisions = 1, !.maxOpenItems = 1, !.maxFilesTracked = 1,
                      !.maxErrorsTracked = 1, !.maxActiveSnapshots = 2 ]

EnvThresholdConfig ==
    [ DEFAULTS EXCEPT !.thresholds = <<25, 35>> ]

loadConfig == { DEFAULTS, EnvThresholdConfig }

-----------------------------------------------------------------------------
(* Session identifiers: '' , a hook-supplied id, or `session_${Date.now()}` *)

NoSession == [tag |-> "none", v |-> 0]
HookSession(n) == [tag |-> "hook", v |-> n]
GenSession(t) == [tag |-> "gen", v |-> t]

HookSessionIds == {1}
\* options.sessionId: absent (NoSession) or supplied by the hook input
SessionInputs == {NoSession} \cup { HookSession(n) : n \in HookSessionIds }

-----------------------------------------------------------------------------
(* threshold/state.ts *)

defaultState ==
    [ session_id |-> NoSession,
      compaction_count |-> 0,
      current_threshold |-> 20,
      last_snapshot_time |-> 0,
      last_event_time |-> 0,
      snapshot_interval_minutes |-> 20,
      session_history |-> << >> ]

\* what state.json holds when its text is not JSON: JSON.parse throws on it
UnparseableState == [ unparseable |-> TRUE ]

\* a variant whose fallback is not the built-in state
loadStateStale ==
    IF statePresent /\ stateFile # UnparseableState THEN stateFile
    ELSE [ defaultState EXCEPT !.current_threshold = 30 ]

\* existsSync, then JSON.parse in a try block whose catch returns
\* defaultState(); the parsed object is spread over defaultState()
loadState ==
    IF statePresent /\ stateFile # UnparseableState THEN stateFile
    ELSE defaultState

\* a variant that counts down
incrementCompactionBackward(state, thresholds) ==
    LET newCount == state.compaction_count - 1
        thresholdIndex == Min(state.compaction_count + 1, Len(thresholds) - 1)
    IN  [ state EXCEPT !.compaction_count = newCount,
                       !.current_threshold = thresholds[thresholdIndex + 1] ]

incrementCompaction(state, thresholds) ==
    LET newCount == state.compaction_count + 1
        thresholdIndex == Min(newCount, Len(thresholds) - 1)
    IN  [ state EXCEPT !.compaction_count = newCount,
                       !.current_threshold = thresholds[thresholdIndex + 1] ]

HistoryStarted(state) ==
    LET same == { i \in DOMAIN state.session_history :
                    state.session_history[i].session_id = state.session_id }
    IN  IF same = {} THEN state.last_event_time
        ELSE state.session_history[CHOOSE i \in same : \A j \in same : i <= j].started

\* a variant that puts the ended session behind the earlier ones
resetForNewSessionAppend(state, sessionId, thresholds, t) ==
    LET pushed == Append(state.session_history,
                         [ session_id |-> state.session_id,
                           started |-> HistoryStarted(state),
                           ended |-> t,
                           compaction_count |-> state.compaction_count ])
    IN  [ state EXCEPT !.session_id = sessionId,
                       !.compaction_count = 0,
                       !.current_threshold = thresholds[1],
                       !.last_event_time = t,
                       !.session_history =
                           IF state.session_id # NoSession
                           THEN SubSeq(pushed, 1, Min(Len(pushed), MAX_SESSION_HISTORY))
                           ELSE state.session_history ]

\* a variant that carries the count into the new session
resetForNewSessionKeepCount(state, sessionId, thresholds, t) ==
    [ state EXCEPT !.session_id = sessionId,
                   !.current_threshold = thresholds[1],
                   !.last_event_time = t,
                   !.session_history =
                       IF state.session_id # NoSession
                       THEN << [ session_id |-> state.session_id,
                                 started |-> HistoryStarted(state),
                                 ended |-> t,
                                 compaction_count |-> state.compaction_count ] >>
                                \o state.session_history
                       ELSE state.session_history ]

resetForNewSession(state, sessionId, thresholds, t) ==
    LET currentEntry ==
            [ session_id |-> state.session_id,
              started |-> HistoryStarted(state),
              ended |-> t,
              compaction_count |-> state.compaction_count ]
        pushed == <<currentEntry>> \o state.session_history
        history ==
            IF state.session_id # NoSession
            THEN SubSeq(pushed, 1, Min(Len(pushed), MAX_SESSION_HISTORY))
            ELSE state.session_history
    IN  [ state EXCEPT !.session_id = sessionId,
                       !.compaction_count = 0,
                       !.current_threshold = thresholds[1],
                       !.last_event_time = t,
                       !.session_history = history ]

updateSnapshotTime(state, t) ==
    [ state EXCEPT !.last_snapshot_time = t, !.last_event_time = t ]

-----------------------------------------------------------------------------
(* threshold/time-based.ts *)

\* a variant without the `|| now` fallback and the `> 0` guard
checkTimeIntervalFromEpoch(state, t) ==
    LET intervalMs == state.snapshot_interval_minutes * 60 * 1000
        elapsed == t - state.last_snapshot_time
    IN  [ shouldSnapshot |-> (elapsed >= intervalMs),
          elapsedMinutes |-> elapsed \div 60000,
          intervalMinutes |-> state.snapshot_interval_minutes ]

checkTimeInterval(state, t) ==
    LET intervalMs == state.snapshot_interval_minutes * 60 * 1000
        elapsed == t - (IF state.last_snapshot_time # 0 THEN state.last_snapshot_time ELSE t)
    IN  [ shouldSnapshot |-> (state.last_snapshot_time > 0 /\ elapsed >= intervalMs),
          elapsedMinutes |-> elapsed \div 60000,
          intervalMinutes |-> state.snapshot_interval_minutes ]

(* threshold/adaptive.ts *)

getThreshold(compactionCount, cfg) ==
    LET idx == Min(compactionCount, Len(cfg.thresholds) - 1)
    IN  Min(cfg.thresholds[idx + 1], cfg.maxThreshold)

shouldSnapshotByThreshold(remainingPct, compactionCount, cfg) ==
    remainingPct <= getThreshold(compactionCount, cfg)

(* cli/index.ts : what the check command decides from the state it loaded.  *)
(* The threshold evaluator runs only when the time evaluator did not fire   *)
(* and a transcript is known; `calls` is the number of captureSnapshot      *)
(* calls the action makes.                                                  *)
\* a variant that captures once per evaluator that fires
checkDecisionPerEvaluator(state, t, transcriptPath, remainingPct, cfg) ==
    LET timeCheck == checkTimeInterval(state, t)
        thr == /\ transcriptPath
               /\ shouldSnapshotByThreshold(remainingPct, state.compaction_count, cfg)
        shouldCapture == timeCheck.shouldSnapshot \/ thr
    IN  [ timeFired |-> timeCheck.shouldSnapshot,
          thresholdFired |-> thr,
          shouldCapture |-> shouldCapture,
          calls |-> (IF timeCheck.shouldSnapshot /\ transcriptPath THEN 1 ELSE 0)
                    + (IF thr THEN 1 ELSE 0) ]

checkDecision(state, t, transcriptPath, remainingPct, cfg) ==
    LET timeCheck == checkTimeInterval(state, t)
        thr == /\ ~timeCheck.shouldSnapshot
               /\ transcriptPath
               /\ shouldSnapshotByThreshold(remainingPct, state.compaction_count, cfg)
        shouldCapture == timeCheck.shouldSnapshot \/ thr
    IN  [ timeFired |-> timeCheck.shouldSnapshot,
          thresholdFired |-> thr,
          shouldCapture |-> shouldCapture,
          calls |-> IF shouldCapture /\ transcriptPath THEN 1 ELSE 0 ]

-----------------------------------------------------------------------------
(* snapshot/capture.ts : generateSnapshotId formats the local wall clock    *)
(* as SNAP_YYYYMMDD_HHMMSS; `date` is the day, `time` the digits HHMMSS.    *)

generateSnapshotId(t) ==
    LET sec == t \div 1000
        ofDay == sec % 86400
        hh == ofDay \div 3600
        mm == (ofDay % 3600) \div 60
        ss == ofDay % 60
    IN  [ date |-> sec \div 86400, time |-> hh * 10000 + mm * 100 + ss ]

NoId == [ date |-> -1, time |-> 0 ]

(* What extractFromEntries found in the transcript *)
EmptyExtraction ==
    [ intent |-> "Unknown", progress |-> "Unknown", user_sentiment |-> "neutral",
      files_changed |-> << >>, decisions |-> << >>, open_items |-> << >> ]

WorkExtraction ==
    [ intent |-> "X", progress |-> "half", user_sentiment |-> "positive",
      files_changed |-> << [path |-> "a.ts", operations |-> {"edit"}, lines_changed |-> 3] >>,
      decisions |-> << [prefix |-> "use a", upper |-> FALSE, rest |-> 0] >>,
      open_items |-> << "c" >> ]

Extractions == { EmptyExtraction, WorkExtraction }

Triggers == { "pre_compact", "time_interval", "manual", "session_end" }
\* the snapshot command as the PreCompact hook and the /bookmark:snapshot
\* command run it
HookTriggers == { "pre_compact", "manual" }

NoSnap ==
    [ snapshot_id |-> NoId, timestamp |-> 0, session_id |-> NoSession,
      trigger |-> "manual", compaction_cycle |-> 0,
      intent |-> "Unknown", progress |-> "Unknown", user_sentiment |-> "neutral",
      files_changed |-> << >>, decisions |-> << >>, open_items |-> << >>,
      prior_snapshot_id |-> NoId ]

(* snapshot/storage.ts *)

loadSnapshot(files, id) ==
    IF id \in DOMAIN files THEN files[id] ELSE NoSnap

loadLatestSnapshot(idx, files) ==
    IF Len(idx.snapshots) = 0 THEN NoSnap
    ELSE loadSnapshot(files, idx.snapshots[1].id)

EmptyIndex == [ snapshots |-> << >>, total_snapshots |-> 0, last_snapshot |-> 0 ]

\* a variant that lists the new snapshot alone
updateIndexAlone(idx, snapshot) ==
    [ snapshots |-> << [ id |-> snapshot.snapshot_id,
                         timestamp |-> snapshot.timestamp,
                         trigger |-> snapshot.trigger,
                         compaction_cycle |-> snapshot.compaction_cycle ] >>,
      total_snapshots |-> 1,
      last_snapshot |-> snapshot.timestamp ]

updateIndex(idx, snapshot) ==
    LET entry == [ id |-> snapshot.snapshot_id,
                   timestamp |-> snapshot.timestamp,
                   trigger |-> snapshot.trigger,
                   compaction_cycle |-> snapshot.compaction_cycle ]
        unshifted == <<entry>> \o idx.snapshots
    IN  [ snapshots |-> SubSeq(unshifted, 1, Min(Len(unshifted), MaxActiveIndex)),
          total_snapshots |-> Len(unshifted),
          last_snapshot |-> snapshot.timestamp ]

writeSnapshotFile(files, snapshot) ==
    [ id \in DOMAIN files \cup {snapshot.snapshot_id} |->
        IF id = snapshot.snapshot_id THEN snapshot ELSE files[id] ]

getSnapshotCount(files) == Cardinality(DOMAIN files)

(* snapshot/capture.ts : the Snapshot captureSnapshot builds *)

buildSnapshot(options, state, extraction, prior, t) ==
    [ snapshot_id |-> generateSnapshotId(t),
      timestamp |-> t,
      session_id |-> IF options.sessionId # NoSession THEN options.sessionId
                     ELSE state.session_id,
      trigger |-> options.trigger,
      compaction_cycle |-> state.compaction_count,
      intent |-> extraction.intent,
      progress |-> extraction.progress,
      user_sentiment |-> extraction.user_sentiment,
      files_changed |-> extraction.files_changed,
      decisions |-> extraction.decisions,
      open_items |-> extraction.open_items,
      prior_snapshot_id |-> prior.snapshot_id ]

\* a variant for which every snapshot has content
hasContentAlways(snapshot) ==
    \/ Len(snapshot.files_changed) >= 0
    \/ Len(snapshot.decisions) > 0
    \/ Len(snapshot.open_items) > 0

hasContent(snapshot) ==
    \/ Len(snapshot.files_changed) > 0
    \/ Len(snapshot.decisions) > 0
    \/ Len(snapshot.open_items) > 0

-----------------------------------------------------------------------------
(* restore/index.ts : chain merging *)

(* The chain of recent snapshots linked by prior_snapshot_id, found by     *)
(* lookup from the latest snapshot back, oldest first.                      *)
RECURSIVE ChainBack(_, _, _)
ChainBack(files, snap, n) ==
    IF snap = NoSnap \/ n = 0 THEN << >>
    ELSE ChainBack(files, loadSnapshot(files, snap.prior_snapshot_id), n - 1) \o <<snap>>

loadSnapshotChain(idx, files) ==
    ChainBack(files, loadLatestSnapshot(idx, files), ChainLimit)

\* a variant that walks forward
NewestNotForward(chain, field, sentinel) ==
    LET has == { i \in DOMAIN chain : chain[i][field] # sentinel }
    IN  IF has = {} THEN sentinel
        ELSE chain[CHOOSE i \in has : \A j \in has : i <= j][field]

\* walk backward, take the first value that is not the sentinel
NewestNot(chain, field, sentinel) ==
    LET has == { i \in DOMAIN chain : chain[i][field] # sentinel }
    IN  IF has = {} THEN sentinel
        ELSE chain[CHOOSE i \in has : \A j \in has : j <= i][field]

\* a variant that keeps the larger line count
MergeFileMax(fileSeq, f) ==
    IF \E i \in DOMAIN fileSeq : fileSeq[i].path = f.path
    THEN [ i \in DOMAIN fileSeq |->
             IF fileSeq[i].path = f.path
             THEN [ path |-> f.path,
                    operations |-> fileSeq[i].operations \cup f.operations,
                    lines_changed |-> IF fileSeq[i].lines_changed >= f.lines_changed
                                      THEN fileSeq[i].lines_changed
                                      ELSE f.lines_changed ]
             ELSE fileSeq[i] ]
    ELSE Append(fileSeq, f)

MergeFile(fileSeq, f) ==
    IF \E i \in DOMAIN fileSeq : fileSeq[i].path = f.path
    THEN [ i \in DOMAIN fileSeq |->
             IF fileSeq[i].path = f.path
             THEN [ path |-> f.path,
                    operations |-> fileSeq[i].operations \cup f.operations,
                    lines_changed |-> fileSeq[i].lines_changed + f.lines_changed ]
             ELSE fileSeq[i] ]
    ELSE Append(fileSeq, f)

RECURSIVE MergeFiles(_, _)
MergeFiles(fileSeq, more) ==
    IF more = << >> THEN fileSeq
    ELSE MergeFiles(MergeFile(fileSeq, Head(more)), Tail(more))

RECURSIVE Flatten(_, _)
Flatten(chain, field) ==
    IF chain = << >> THEN << >>
    ELSE Head(chain)[field] \o Flatten(Tail(chain), field)

\* a variant without toLowerCase
DecisionKeyCaseSensitive(d) == <<d.prefix, d.upper>>

\* d.description.slice(0, 60).toLowerCase().trim()
DecisionKey(d) == d.prefix

RECURSIVE UniqueDecisions(_, _)
UniqueDecisions(seen, more) ==
    IF more = << >> THEN << >>
    ELSE IF DecisionKey(Head(more)) \in seen
         THEN UniqueDecisions(seen, Tail(more))
         ELSE <<Head(more)>> \o UniqueDecisions(seen \cup {DecisionKey(Head(more))}, Tail(more))

\* a variant that collects the open items of the whole chain
mergeSnapshotChainAllOpenItems(chain) ==
    LET latest == chain[Len(chain)]
        oldest == chain[1]
        allDecisions == UniqueDecisions({}, Flatten(chain, "decisions"))
    IN  [ intent |-> NewestNot(chain, "intent", "Unknown"),
          progress |-> NewestNot(chain, "progress", "Unknown"),
          sentiment |-> NewestNot(chain, "user_sentiment", "neutral"),
          files |-> MergeFiles(<< >>, Flatten(chain, "files_changed")),
          decisions |-> SubSeq(allDecisions, 1, Min(Len(allDecisions), 6)),
          openItems |-> Flatten(chain, "open_items"),
          compactionCycle |-> latest.compaction_cycle,
          chainSpan |-> [ oldest |-> oldest.timestamp, newest |-> latest.timestamp ] ]

mergeSnapshotChain(chain) ==
    LET latest == chain[Len(chain)]
        oldest == chain[1]
        allDecisions == UniqueDecisions({}, Flatten(chain, "decisions"))
    IN  [ intent |-> NewestNot(chain, "intent", "Unknown"),
          progress |-> NewestNot(chain, "progress", "Unknown"),
          sentiment |-> NewestNot(chain, "user_sentiment", "neutral"),
          files |-> MergeFiles(<< >>, Flatten(chain, "files_changed")),
          decisions |-> SubSeq(allDecisions, 1, Min(Len(allDecisions), 6)),
          openItems |-> latest.open_items,
          compactionCycle |-> latest.compaction_cycle,
          chainSpan |-> [ oldest |-> oldest.timestamp, newest |-> latest.timestamp ] ]

(* restore/index.ts : the payload restoreContext returns.  `kind` names the *)
(* builder, `chainLength` and `intent` are what the briefing shows, `from`  *)
(* is the snapshot a single-record payload was made of.                     *)

Payload(kind, chainLength, intent, from) ==
    [ kind |-> kind, chainLength |-> chainLength, intent |-> intent, from |-> from ]

EmptyPayload == Payload("empty", 0, "Unknown", NoId)

Formats == { "system_message", "json", "markdown" }
Sources == { "startup", "resume", "compact", "clear" }

\* trails/reader.ts : null when the file is absent or cannot be read
readContextMd(file, readable) ==
    IF file # << >> /\ readable THEN file ELSE << >>

\* a variant that answers a missing LATEST.md with the first-run notice
restorePayloadNoticeWithoutLatest(options, cfg, files, idx, latest, context) ==
    LET snapshotCount == getSnapshotCount(files)
        ctx == readContextMd(context, options.contextReadable)
        chain == loadSnapshotChain(idx, files)
        snapshot == loadLatestSnapshot(idx, files)
    IN  IF ~cfg.restoreOnSessionStart THEN EmptyPayload
        ELSE IF options.source = "resume" THEN EmptyPayload
        ELSE IF snapshotCount = 0 \/ latest = << >>
             THEN Payload("first_run", 0, "Unknown", NoId)
        ELSE IF options.format = "json"
             THEN Payload("json", 1, snapshot.intent, snapshot.snapshot_id)
        ELSE IF options.format = "markdown"
             THEN Payload("markdown", 1, latest[1].intent, latest[1].snapshot_id)
        ELSE IF ctx # << >>
             THEN Payload("trailhead", 1, ctx[1].intent, ctx[1].snapshot_id)
        ELSE IF Len(chain) > 1
             THEN Payload("chain", Len(chain), mergeSnapshotChain(chain).intent, NoId)
        ELSE IF snapshot # NoSnap
             THEN Payload("single", 1, snapshot.intent, snapshot.snapshot_id)
        ELSE Payload("fallback", 1, latest[1].intent, latest[1].snapshot_id)

\* a variant that never merges the chain
restorePayloadLatestOnly(options, cfg, files, idx, latest, context) ==
    LET snapshotCount == getSnapshotCount(files)
        ctx == readContextMd(context, options.contextReadable)
        snapshot == loadLatestSnapshot(idx, files)
    IN  IF ~cfg.restoreOnSessionStart THEN EmptyPayload
        ELSE IF options.source = "resume" THEN EmptyPayload
        ELSE IF snapshotCount = 0 THEN Payload("first_run", 0, "Unknown", NoId)
        ELSE IF latest = << >> THEN EmptyPayload
        ELSE IF options.format = "json"
             THEN Payload("json", 1, snapshot.intent, snapshot.snapshot_id)
        ELSE IF options.format = "markdown"
             THEN Payload("markdown", 1, latest[1].intent, latest[1].snapshot_id)
        ELSE IF ctx # << >>
             THEN Payload("trailhead", 1, ctx[1].intent, ctx[1].snapshot_id)
        ELSE IF snapshot # NoSnap
             THEN Payload("single", 1, snapshot.intent, snapshot.snapshot_id)
        ELSE Payload("fallback", 1, latest[1].intent, latest[1].snapshot_id)

restorePayload(options, cfg, files, idx, latest, context) ==
    LET snapshotCount == getSnapshotCount(files)
        ctx == readContextMd(context, options.contextReadable)
        chain == loadSnapshotChain(idx, files)
        snapshot == loadLatestSnapshot(idx, files)
    IN  IF ~cfg.restoreOnSessionStart THEN EmptyPayload
        ELSE IF options.source = "resume" THEN EmptyPayload
        ELSE IF snapshotCount = 0 THEN Payload("first_run", 0, "Unknown", NoId)
        ELSE IF latest = << >> THEN EmptyPayload
        ELSE IF options.format = "json"
             THEN Payload("json", 1, snapshot.intent, snapshot.snapshot_id)
        ELSE IF options.format = "markdown"
             THEN Payload("markdown", 1, latest[1].intent, latest[1].snapshot_id)
        ELSE IF ctx # << >>
             THEN Payload("trailhead", 1, ctx[1].intent, ctx[1].snapshot_id)
        ELSE IF Len(chain) > 1
             THEN Payload("chain", Len(chain), mergeSnapshotChain(chain).intent, NoId)
        ELSE IF snapshot # NoSnap
             THEN Payload("single", 1, snapshot.intent, snapshot.snapshot_id)
        ELSE Payload("fallback", 1, latest[1].intent, latest[1].snapshot_id)

(* restore/index.ts : handleSessionTransition's updatedState *)
handleSessionTransition(state, options, thresholds, t) ==
    LET sessionId == IF options.sessionId # NoSession THEN options.sessionId
                     ELSE GenSession(t)
    IN  CASE options.source \in {"startup", "clear"} ->
                resetForNewSession(state, sessionId, thresholds, t)
          [] options.source = "compact" ->
                [ incrementCompaction(state, thresholds) EXCEPT !.session_id = sessionId ]
          [] options.source = "resume" ->
                [ state EXCEPT !.session_id = sessionId, !.last_event_time = t ]

-----------------------------------------------------------------------------
(* Invocations *)

NoInv ==
    [ kind |-> "none", trigger |-> "manual", sessionId |-> NoSession,
      hasTranscript |-> FALSE, remainingPct |-> 100, extraction |-> EmptyExtraction,
      source |-> "startup", format |-> "system_message", contextReadable |-> TRUE ]

IdleLoc ==
    [ state |-> defaultState,      \* the state the command action loaded
      capState |-> defaultState,   \* the state captureSnapshot loaded
      prior |-> NoSnap,            \* loadLatestSnapshot at capture
      snap |-> NoSnap,             \* the snapshot captureSnapshot built
      idx |-> EmptyIndex,          \* the index updateIndex loaded
      timeFired |-> FALSE,         \* timeCheck.shouldSnapshot
      thresholdFired |-> FALSE,    \* shouldSnapshotByThreshold, when evaluated
      shouldCapture |-> FALSE,
      calls |-> 0,                 \* captureSnapshot calls the check makes
      evalTime |-> 0,              \* Date.now() the evaluators saw
      captures |-> 0,              \* captureSnapshot calls made so far
      capTime |-> 0,               \* Date.now() of updateSnapshotTime
      out |-> EmptyPayload ]       \* restoreContext's result

RemainingPcts == { 10, 90 }

HasLoaded(q) ==
    /\ pc[q] \notin {"idle", "done", "chk_load", "rst_load"}
    /\ ~(inv[q].kind = "snapshot" /\ pc[q] = "cap_load")

Capturing == { q \in Procs : inv[q].kind \in {"snapshot", "check"} }

\* saveState: creates the directory if needed and rewrites state.json
saveState(p, state) ==
    /\ dirExists' = TRUE
    /\ statePresent' = TRUE
    /\ stateFile' = state
    /\ raced' = [ q \in Procs |-> IF q # p /\ HasLoaded(q) THEN TRUE ELSE raced[q] ]

Goto(p, label) == pc' = [pc EXCEPT ![p] = label]

SetLoc(p, l) == loc' = [loc EXCEPT ![p] = l]

\* an invocation starts when the others permit: in a run without overlap
\* only when no other invocation is in flight.  Invocations are numbered in
\* the order they start.
MayBegin(p, overlap) ==
    /\ pc[p] = "idle"
    /\ \A q \in Procs : q < p => pc[q] # "idle"
    /\ overlap \/ \A q \in Procs : pc[q] = "idle"

\* triggers: the --trigger values the host passes; transcriptsFound: what
\* extraction can find in the transcript
BeginSnapshot(p, overlap, triggers, transcriptsFound) ==
    /\ MayBegin(p, overlap)
    /\ Len(index.snapshots) + Cardinality(Capturing) < MaxSnapshots
    /\ \E trigger \in triggers, ext \in transcriptsFound :
         inv' = [inv EXCEPT ![p] = [ NoInv EXCEPT !.kind = "snapshot", !.hasTranscript = TRUE,
                                                  !.trigger = trigger, !.extraction = ext ]]
    /\ Goto(p, "cap_load")
    /\ UNCHANGED <<now, config, diskVars, loc, raced, fnIn, fnOut>>

\* transcripts: whether the hook input of a check names a transcript
BeginCheck(p, overlap, transcripts, transcriptsFound) ==
    /\ MayBegin(p, overlap)
    /\ Len(index.snapshots) + Cardinality(Capturing) < MaxSnapshots
    /\ \E transcriptPath \in transcripts, ext \in transcriptsFound :
         inv' = [inv EXCEPT ![p] = [ NoInv EXCEPT !.kind = "check", !.trigger = "time_interval",
                                                  !.hasTranscript = transcriptPath,
                                                  !.extraction = IF transcriptPath THEN ext
                                                                 ELSE EmptyExtraction ]]
    /\ Goto(p, "chk_load")
    /\ UNCHANGED <<now, config, diskVars, loc, raced, fnIn, fnOut>>

\* sources, sessions: the session-start events and session ids the host sends
BeginRestore(p, overlap, sources, sessions) ==
    /\ MayBegin(p, overlap)
    /\ \E source \in sources, sid \in sessions :
         /\ source = "compact" => loadState.compaction_count < MaxCompactions
         /\ source \in {"startup", "clear"} => Len(loadState.session_history) < MaxHistory
         /\ inv' = [inv EXCEPT ![p] = [ NoInv EXCEPT !.kind = "restore", !.source = source,
                                                    !.sessionId = sid ]]
    /\ Goto(p, "rst_load")
    /\ UNCHANGED <<now, config, diskVars, loc, raced, fnIn, fnOut>>

(* cli/index.ts : the check command *)

\* loadState, checkTimeInterval, then the threshold evaluator unless the
\* time evaluator fired
CheckLoad(p) ==
    /\ pc[p] = "chk_load"
    /\ \E remainingPct \in RemainingPcts :
         LET state == loadState
             d == checkDecision(state, now, inv[p].hasTranscript, remainingPct, config)
         IN  /\ inv' = [inv EXCEPT ![p].remainingPct = remainingPct]
             /\ SetLoc(p, [ loc[p] EXCEPT !.state = state,
                                          !.timeFired = d.timeFired,
                                          !.thresholdFired = d.thresholdFired,
                                          !.shouldCapture = d.shouldCapture,
                                          !.calls = d.calls,
                                          !.evalTime = now ])
             /\ Goto(p, IF d.calls > 0 THEN "cap_load" ELSE "chk_save")
    /\ raced' = [raced EXCEPT ![p] = FALSE]
    /\ UNCHANGED <<now, config, diskVars, fnIn, fnOut>>

\* saveState(storagePath, { ...state, last_event_time: Date.now() })
CheckSave(p) ==
    /\ pc[p] = "chk_save"
    /\ saveState(p, [ loc[p].state EXCEPT !.last_event_time = now ])
    /\ Goto(p, "done")
    /\ UNCHANGED <<now, config, snapFiles, index, latestMd, contextMd, inv, loc, fnIn, fnOut>>

(* snapshot/capture.ts : captureSnapshot *)

CapLoad(p) ==
    /\ pc[p] = "cap_load"
    /\ SetLoc(p, [ loc[p] EXCEPT !.capState = loadState, !.captures = @ + 1 ])
    /\ Goto(p, "cap_build")
    /\ raced' = IF inv[p].kind = "snapshot" THEN [raced EXCEPT ![p] = FALSE] ELSE raced
    /\ UNCHANGED <<now, config, diskVars, inv, fnIn, fnOut>>

\* generateSnapshotId, loadLatestSnapshot, the snapshot object
CapBuild(p) ==
    /\ pc[p] = "cap_build"
    /\ \E sid \in { HookSession(n) : n \in HookSessionIds } :
         LET options == [ inv[p] EXCEPT !.sessionId = sid ]
             prior == loadLatestSnapshot(index, snapFiles)
         IN  /\ inv' = [inv EXCEPT ![p] = options]
             /\ SetLoc(p, [ loc[p] EXCEPT
                   !.prior = prior,
                   !.snap = buildSnapshot(options, loc[p].capState, options.extraction,
                                          prior, now) ])
    /\ Goto(p, "cap_store")
    /\ UNCHANGED <<now, config, diskVars, raced, fnIn, fnOut>>

\* storeSnapshot: ensureStorageDirs, writeFileSync of the snapshot file
CapStore(p) ==
    /\ pc[p] = "cap_store"
    /\ dirExists' = TRUE
    /\ snapFiles' = writeSnapshotFile(snapFiles, loc[p].snap)
    /\ Goto(p, "cap_index_read")
    /\ UNCHANGED <<now, config, statePresent, stateFile, index, latestMd, contextMd,
                   inv, loc, raced, fnIn, fnOut>>

\* updateIndex: loadIndex ...
CapIndexRead(p) ==
    /\ pc[p] = "cap_index_read"
    /\ SetLoc(p, [ loc[p] EXCEPT !.idx = index ])
    /\ Goto(p, "cap_index_write")
    /\ UNCHANGED <<now, config, diskVars, inv, raced, fnIn, fnOut>>

\* ... and the write of the updated index
CapIndexWrite(p) ==
    /\ pc[p] = "cap_index_write"
    /\ index' = updateIndex(loc[p].idx, loc[p].snap)
    /\ Goto(p, "cap_trails")
    /\ UNCHANGED <<now, config, dirExists, statePresent, stateFile, snapFiles, latestMd,
                   contextMd, inv, loc, raced, fnIn, fnOut>>

\* writeLatestMd and writeTrails, only for a snapshot with content or a manual one
CapTrails(p) ==
    /\ pc[p] = "cap_trails"
    /\ IF hasContent(loc[p].snap) \/ loc[p].snap.trigger = "manual"
       THEN /\ latestMd' = << loc[p].snap >>
            /\ contextMd' = << loc[p].snap >>
       ELSE UNCHANGED <<latestMd, contextMd>>
    /\ Goto(p, "cap_save")
    /\ UNCHANGED <<now, config, dirExists, statePresent, stateFile, snapFiles, index,
                   inv, loc, raced, fnIn, fnOut>>

\* saveState(storagePath, updateSnapshotTime(state)); back in the caller
CapSave(p) ==
    /\ pc[p] = "cap_save"
    /\ saveState(p, updateSnapshotTime(loc[p].capState, now))
    /\ SetLoc(p, [ loc[p] EXCEPT !.capTime = now ])
    /\ Goto(p, IF inv[p].kind # "check" THEN "done"
                ELSE IF loc[p].captures < loc[p].calls THEN "cap_load"
                ELSE "chk_save")
    /\ UNCHANGED <<now, config, snapFiles, index, latestMd, contextMd, inv, fnIn, fnOut>>

(* restore/index.ts : restoreContext *)

RestoreLoad(p) ==
    /\ pc[p] = "rst_load"
    /\ SetLoc(p, [ loc[p] EXCEPT !.state = loadState ])
    /\ Goto(p, "rst_save")
    /\ raced' = [raced EXCEPT ![p] = FALSE]
    /\ UNCHANGED <<now, config, diskVars, inv, fnIn, fnOut>>

\* handleSessionTransition: saves only when the storage directory exists
RestoreSave(p) ==
    /\ pc[p] = "rst_save"
    /\ IF dirExists
       THEN saveState(p, handleSessionTransition(loc[p].state, inv[p], config.thresholds, now))
       ELSE UNCHANGED <<dirExists, statePresent, stateFile, raced>>
    /\ Goto(p, "rst_read")
    /\ UNCHANGED <<now, config, snapFiles, index, latestMd, contextMd, inv, loc, fnIn, fnOut>>

RestoreRead(p) ==
    /\ pc[p] = "rst_read"
    /\ \E format \in Formats, readable \in BOOLEAN :
         LET options == [ inv[p] EXCEPT !.format = format, !.contextReadable = readable ]
         IN  /\ inv' = [inv EXCEPT ![p] = options]
             /\ SetLoc(p, [ loc[p] EXCEPT
                   !.out = restorePayload(options, config, snapFiles, index, latestMd, contextMd) ])
    /\ Goto(p, "done")
    /\ UNCHANGED <<now, config, diskVars, raced, fnIn, fnOut>>

\* the process exits
Finish(p) ==
    /\ pc[p] = "done"
    /\ pc' = [pc EXCEPT ![p] = "idle"]
    /\ inv' = [inv EXCEPT ![p] = NoInv]
    /\ loc' = [loc EXCEPT ![p] = IdleLoc]
    /\ raced' = [raced EXCEPT ![p] = FALSE]
    /\ UNCHANGED <<now, config, diskVars, fnIn, fnOut>>

\* the wall clock advances, within the second or by 21 minutes
Tick ==
    /\ \E d \in {SubSecondMs, LongGapMs} :
         /\ now + d <= MaxNow
         /\ d < 1000 => (now % 1000) + d < 1000
         /\ now' = now + d
    /\ UNCHANGED <<config, diskVars, pc, inv, loc, raced, fnIn, fnOut>>

-----------------------------------------------------------------------------
(* The evaluators as pure functions of their arguments *)

NoFn ==
    [ count |-> 0, remainingPct |-> 0, cfg |-> DEFAULTS,
      last_snapshot_time |-> 0, t |-> 0, interval |-> 20 ]
NoFnOut == [ done |-> FALSE, fn |-> "none", threshold |-> 0, fires |-> FALSE ]

FnTimes == { StartTime, MaxNow }
\* last_snapshot_time: never, or 19, 20, 21 minutes before t
FnAges == { 19 * 60 * 1000, 20 * 60 * 1000, LongGapMs }
FnIntervals == { 20, 30 }

FnInputsAt(t) ==
    { [ count |-> c, remainingPct |-> r, cfg |-> g,
        last_snapshot_time |-> l, t |-> t, interval |-> i ] :
        c \in 0..MaxCount, r \in RemainingPcts, g \in loadConfig,
        l \in {0} \cup { t - a : a \in FnAges }, i \in FnIntervals }

FnInputs == UNION { FnInputsAt(t) : t \in FnTimes }

ApplyGetThreshold ==
    /\ ~fnOut.done
    /\ fnOut' = [ done |-> TRUE, fn |-> "getThreshold",
                  threshold |-> getThreshold(fnIn.count, fnIn.cfg),
                  fires |-> shouldSnapshotByThreshold(fnIn.remainingPct, fnIn.count, fnIn.cfg) ]
    /\ UNCHANGED <<now, config, diskVars, pc, inv, loc, raced, fnIn>>

ApplyCheckTimeInterval ==
    /\ ~fnOut.done
    /\ LET state == [ defaultState EXCEPT !.last_snapshot_time = fnIn.last_snapshot_time,
                                          !.snapshot_interval_minutes = fnIn.interval ]
       IN  fnOut' = [ done |-> TRUE, fn |-> "checkTimeInterval", threshold |-> 0,
                      fires |-> checkTimeInterval(state, fnIn.t).shouldSnapshot ]
    /\ UNCHANGED <<now, config, diskVars, pc, inv, loc, raced, fnIn>>

(* mergeSnapshotChain as a pure function of the chain.  The chains vary    *)
(* one group of fields at a time: the scanned fields, the files, the      *)
(* decisions, the open items.                                             *)

MergeIntents == { "Unknown", "X", "Y" }
MergeProgress == { "Unknown", "half" }
MergeSentiments == { "neutral", "positive", "negative" }

FileA1 == [ path |-> "a.ts", operations |-> {"edit"}, lines_changed |-> 3 ]
FileA2 == [ path |-> "a.ts", operations |-> {"write", "edit"}, lines_changed |-> 5 ]
FileB == [ path |-> "b.ts", operations |-> {"read"}, lines_changed |-> 0 ]
MergeFileLists ==
    { << >>, <<FileA1>>, <<FileA2>>, <<FileB>>, <<FileA1, FileB>>, <<FileB, FileA2>> }

\* a decision whose description starts (first 60 characters, case-folded)
\* with `key`; `upper`: it is written in upper case; `rest`: what follows
Dec(key, upper, rest) == [ prefix |-> key, upper |-> upper, rest |-> rest ]
MergeDecisionLists ==
    { << >>,
      << Dec("d1", FALSE, 0), Dec("d2", FALSE, 0), Dec("d3", FALSE, 0) >>,
      << Dec("d4", FALSE, 0), Dec("d5", FALSE, 0), Dec("d6", FALSE, 0) >>,
      << Dec("d7", FALSE, 0), Dec("d1", TRUE, 0) >>,
      << Dec("d1", FALSE, 1), Dec("d7", FALSE, 1) >>,
      << Dec("d2", TRUE, 0), Dec("d2", FALSE, 0) >> }

MergeOpenItems == { << >>, <<"a", "b">>, <<"c">> }

ScannedSnaps ==
    { [ NoSnap EXCEPT !.intent = i, !.progress = g, !.user_sentiment = u ] :
        i \in MergeIntents, g \in MergeProgress, u \in MergeSentiments }
FileSnaps == { [ NoSnap EXCEPT !.files_changed = f ] : f \in MergeFileLists }
DecisionSnaps == { [ NoSnap EXCEPT !.decisions = d ] : d \in MergeDecisionLists }
OpenItemSnaps == { [ NoSnap EXCEPT !.open_items = o, !.intent = i ] :
                     o \in MergeOpenItems, i \in {"Unknown", "X"} }

ChainsOver(snaps) == UNION { [ 1..n -> snaps ] : n \in 2..MaxChain }

MergeInputs ==
    { [ chain |-> c ] :
        c \in ChainsOver(ScannedSnaps) \cup ChainsOver(FileSnaps)
               \cup ChainsOver(DecisionSnaps) \cup ChainsOver(OpenItemSnaps) }

ApplyMergeSnapshotChain ==
    /\ ~fnOut.done
    /\ fnOut' = [ done |-> TRUE, fn |-> "mergeSnapshotChain",
                  merged |-> mergeSnapshotChain(fnIn.chain) ]
    /\ UNCHANGED <<now, config, diskVars, pc, inv, loc, raced, fnIn>>

-----------------------------------------------------------------------------
\* a project in which Bookmark has not run yet
InitProject ==
    /\ now = StartTime
    /\ config \in loadConfig
    /\ dirExists \in BOOLEAN
    /\ statePresent = FALSE
    /\ stateFile = defaultState
    /\ snapFiles = << >>
    /\ index = EmptyIndex
    /\ latestMd = << >>
    /\ contextMd = << >>
    /\ pc = [p \in Procs |-> "idle"]
    /\ inv = [p \in Procs |-> NoInv]
    /\ loc = [p \in Procs |-> IdleLoc]
    /\ raced = [p \in Procs |-> FALSE]
    /\ fnOut = NoFnOut

Init == InitProject /\ fnIn = NoFn

CheckSteps(p) == CheckLoad(p) \/ CheckSave(p)

CaptureSteps(p) ==
    \/ CapLoad(p)
    \/ CapBuild(p)
    \/ CapStore(p)
    \/ CapIndexRead(p)
    \/ CapIndexWrite(p)
    \/ CapTrails(p)
    \/ CapSave(p)

RestoreSteps(p) == RestoreLoad(p) \/ RestoreSave(p) \/ RestoreRead(p)

\* the snapshot, check and restore hooks, one invocation after another
Next ==
    \/ \E p \in Procs : BeginSnapshot(p, FALSE, HookTriggers, Extractions)
    \/ \E p \in Procs : BeginCheck(p, FALSE, BOOLEAN, Extractions)
    \/ \E p \in Procs : CheckSteps(p)
    \/ \E p \in Procs : CaptureSteps(p)
    \/ \E p \in Procs : Finish(p)
    \/ Tick

Spec == Init /\ [][Next]_vars

\* session-start events and checks of a session that has no transcript yet
NextSession ==
    \/ \E p \in Procs : BeginRestore(p, FALSE, Sources, SessionInputs)
    \/ \E p \in Procs : BeginCheck(p, FALSE, {FALSE}, Extractions)
    \/ \E p \in Procs : CheckSteps(p)
    \/ \E p \in Procs : RestoreSteps(p)
    \/ \E p \in Procs : Finish(p)
    \/ Tick

SpecSession == Init /\ [][NextSession]_vars

\* captures followed by the session starts that follow a compaction
NextRestore ==
    \/ \E p \in Procs : BeginSnapshot(p, FALSE, HookTriggers, Extractions)
    \/ \E p \in Procs : BeginRestore(p, FALSE, {"compact"}, {HookSession(1)})
    \/ \E p \in Procs : CaptureSteps(p)
    \/ \E p \in Procs : RestoreSteps(p)
    \/ \E p \in Procs : Finish(p)
    \/ Tick

SpecRestore == Init /\ [][NextRestore]_vars

\* overlapping invocations within one session (hooks firing
\* near-simultaneously): PreCompact captures, checks without a transcript
\* and the session starts that follow a compaction
InitConc == Init /\ config = DEFAULTS

NextConc ==
    \/ \E p \in Procs : BeginSnapshot(p, TRUE, {"pre_compact"}, {EmptyExtraction})
    \/ \E p \in Procs : BeginCheck(p, TRUE, {FALSE}, {EmptyExtraction})
    \/ \E p \in Procs : BeginRestore(p, TRUE, {"compact"}, {HookSession(1)})
    \/ \E p \in Procs : CheckSteps(p)
    \/ \E p \in Procs : CaptureSteps(p)
    \/ \E p \in Procs : RestoreSteps(p)
    \/ \E p \in Procs : Finish(p)

SpecConc == InitConc /\ [][NextConc]_vars

\* overlapping captures while the clock advances
NextOverlap ==
    \/ \E p \in Procs : BeginSnapshot(p, TRUE, {"pre_compact"}, {EmptyExtraction})
    \/ \E p \in Procs : CaptureSteps(p)
    \/ \E p \in Procs : Finish(p)
    \/ Tick

SpecOverlap == InitConc /\ [][NextOverlap]_vars

\* the evaluators applied to arguments drawn from FnInputs
InitFn ==
    /\ InitProject
    /\ config = DEFAULTS
    /\ dirExists = FALSE
    /\ fnIn \in FnInputs

NextFn == ApplyGetThreshold \/ ApplyCheckTimeInterval

SpecFn == InitFn /\ [][NextFn]_vars

\* mergeSnapshotChain applied to chains drawn from MergeInputs
InitMerge ==
    /\ InitProject
    /\ config = DEFAULTS
    /\ dirExists = FALSE
    /\ fnIn \in MergeInputs

NextMerge == ApplyMergeSnapshotChain

SpecMerge == InitMerge /\ [][NextMerge]_vars

-----------------------------------------------------------------------------
(* The interval of the time evaluator: config/index.ts loadConfig and       *)
(* threshold/time-based.ts checkTimeInterval, as the check command uses     *)
(* them.                                                                    *)

\* BOOKMARK_INTERVAL: unset, or one of these texts
NoEnv == "unset"
EnvIntervals == { NoEnv, "15", "25", "soon" }

\* parseInt(text, 10); NaN is modelled by 0, which is falsy like NaN
parseInt(text) ==
    CASE text = "15" -> 15
      [] text = "25" -> 25
      [] OTHER -> 0

\* intervalMinutes of .claude/bookmarks/config.json; 0: no file, or a file
\* without the key
NoProjectInterval == 0
ProjectIntervals == { NoProjectInterval, 10, 30 }

\* snapshot_interval_minutes of state.json: the default, or what
\* `bookmark config --interval` or setup stored
StateIntervals == { defaultState.snapshot_interval_minutes, 10, 30 }

\* the intervalMinutes of the config that loadConfig(cwd) returns
loadConfigInterval(projectInterval, envInterval) ==
    LET fromFile == IF projectInterval # NoProjectInterval
                    THEN projectInterval ELSE DEFAULTS.intervalMinutes
    IN  IF envInterval # NoEnv
        THEN (IF parseInt(envInterval) # 0 THEN parseInt(envInterval) ELSE fromFile)
        ELSE fromFile

IntervalInputs ==
    LET At(t) ==
            { [ env |-> e, project |-> f, interval |-> i, last_snapshot_time |-> l, t |-> t ] :
                e \in EnvIntervals, f \in ProjectIntervals, i \in StateIntervals,
                l \in {0} \cup { t - a : a \in FnAges } }
    IN  UNION { At(t) : t \in FnTimes }

\* the check command: loadConfig, loadState, checkTimeInterval(state)
ApplyCheckInterval ==
    /\ ~fnOut.done
    /\ LET state == [ defaultState EXCEPT !.last_snapshot_time = fnIn.last_snapshot_time,
                                          !.snapshot_interval_minutes = fnIn.interval ]
           result == checkTimeInterval(state, fnIn.t)
       IN  fnOut' = [ done |-> TRUE, fn |-> "check",
                      configured |-> loadConfigInterval(fnIn.project, fnIn.env),
                      compared |-> result.intervalMinutes,
                      fires |-> result.shouldSnapshot ]
    /\ UNCHANGED <<now, config, diskVars, pc, inv, loc, raced, fnIn>>

InitInterval ==
    /\ InitProject
    /\ config = DEFAULTS
    /\ dirExists = FALSE
    /\ fnIn \in IntervalInputs

SpecInterval == InitInterval /\ [][ApplyCheckInterval]_vars

-----------------------------------------------------------------------------
(* snapshot/storage.ts loadSnapshot on identifier texts.  A text is a       *)
(* sequence of characters, a path a sequence of segments; loadSnapshot      *)
(* above is its restriction to the identifiers generateSnapshotId makes.    *)

\* the characters of the words that the identifiers and paths are made of
Chars(word) ==
    CASE word = "SNAP_" -> <<"S", "N", "A", "P", "_">>
      [] word = "20261102" -> <<"2", "0", "2", "6", "1", "1", "0", "2">>
      [] word = "_" -> <<"_">>
      [] word = "103000" -> <<"1", "0", "3", "0", "0", "0">>
      [] word = "103001" -> <<"1", "0", "3", "0", "0", "1">>
      [] word = ".." -> <<".", ".">>
      [] word = "/" -> <<"/">>
      [] word = "snap_" -> <<"s", "n", "a", "p", "_">>
      [] word = "10300x" -> <<"1", "0", "3", "0", "0", "x">>
      [] word = ".json" -> <<".", "j", "s", "o", "n">>
      [] word = "state" -> <<"s", "t", "a", "t", "e">>
      [] word = "secret" -> <<"s", "e", "c", "r", "e", "t">>
      [] word = "snapshots" -> <<"s", "n", "a", "p", "s", "h", "o", "t", "s">>
      [] word = "bookmarks" -> <<"b", "o", "o", "k", "m", "a", "r", "k", "s">>
      [] word = "ABCDEFGHIJKLMNOPQRSTUVWXYZ" -> <<"A", "B", "C", "D", "E", "F", "G", "H", "I", "J", "K", "L", "M", "N", "O", "P", "Q", "R", "S", "T", "U", "V", "W", "X", "Y", "Z">>
      [] word = "abcdefghijklmnopqrstuvwxyz" -> <<"a", "b", "c", "d", "e", "f", "g", "h", "i", "j", "k", "l", "m", "n", "o", "p", "q", "r", "s", "t", "u", "v", "w", "x", "y", "z">>
      [] word = "decided to" -> <<"d", "e", "c", "i", "d", "e", "d", " ", "t", "o">>
      [] word = "chose" -> <<"c", "h", "o", "s", "e">>
      [] word = "going with" -> <<"g", "o", "i", "n", "g", " ", "w", "i", "t", "h">>
      [] word = "approach:" -> <<"a", "p", "p", "r", "o", "a", "c", "h", ":">>
      [] word = "instead of" -> <<"i", "n", "s", "t", "e", "a", "d", " ", "o", "f">>
      [] word = "opted for" -> <<"o", "p", "t", "e", "d", " ", "f", "o", "r">>
      [] word = "settled on" -> <<"s", "e", "t", "t", "l", "e", "d", " ", "o", "n">>
      [] word = "rationale:" -> <<"r", "a", "t", "i", "o", "n", "a", "l", "e", ":">>
      [] word = "reason:" -> <<"r", "e", "a", "s", "o", "n", ":">>
      [] word = "the advantage" -> <<"t", "h", "e", " ", "a", "d", "v", "a", "n", "t", "a", "g", "e">>
      [] word = "better approach" -> <<"b", "e", "t", "t", "e", "r", " ", "a", "p", "p", "r", "o", "a", "c", "h">>
      [] word = "let me " -> <<"l", "e", "t", " ", "m", "e", " ">>
      [] word = "i'll " -> <<"i", "'", "l", "l", " ">>
      [] word = "ok so " -> <<"o", "k", " ", "s", "o", " ">>
      [] word = "now " -> <<"n", "o", "w", " ">>
      [] word = "here " -> <<"h", "e", "r", "e", " ">>
      [] word = "the " -> <<"t", "h", "e", " ">>
      [] word = "this " -> <<"t", "h", "i", "s", " ">>
      [] word = "it returned" -> <<"i", "t", " ", "r", "e", "t", "u", "r", "n", "e", "d">>
      [] word = "0 " -> <<"0", " ">>
      [] word = "first " -> <<"f", "i", "r", "s", "t", " ">>
      [] word = "{bt}{bt}{bt}" -> <<"backtick", "backtick", "backtick">>
      [] word = "#" -> <<"#">>
      [] word = "##" -> <<"#", "#">>
      [] word = "###" -> <<"#", "#", "#">>
      [] word = "**" -> <<"*", "*">>
      [] word = "still need to" -> <<"s", "t", "i", "l", "l", " ", "n", "e", "e", "d", " ", "t", "o">>
      [] word = "todo" -> <<"t", "o", "d", "o">>
      [] word = "next step" -> <<"n", "e", "x", "t", " ", "s", "t", "e", "p">>
      [] word = "remaining" -> <<"r", "e", "m", "a", "i", "n", "i", "n", "g">>
      [] word = "left to do" -> <<"l", "e", "f", "t", " ", "t", "o", " ", "d", "o">>
      [] word = "pending" -> <<"p", "e", "n", "d", "i", "n", "g">>
      [] word = "will need to" -> <<"w", "i", "l", "l", " ", "n", "e", "e", "d", " ", "t", "o">>
      [] word = "must still" -> <<"m", "u", "s", "t", " ", "s", "t", "i", "l", "l">>
      [] word = "haven't implemented" -> <<"h", "a", "v", "e", "n", "'", "t", " ", "i", "m", "p", "l", "e", "m", "e", "n", "t", "e", "d">>
      [] word = "i need to " -> <<"i", " ", "n", "e", "e", "d", " ", "t", "o", " ">>
      [] word = "i should " -> <<"i", " ", "s", "h", "o", "u", "l", "d", " ">>
      [] word = "now i " -> <<"n", "o", "w", " ", "i", " ">>
      [] word = "now let me " -> <<"n", "o", "w", " ", "l", "e", "t", " ", "m", "e", " ">>
      [] word = "first, " -> <<"f", "i", "r", "s", "t", ",", " ">>
      [] word = "next " -> <<"n", "e", "x", "t", " ">>
      [] word = "next, " -> <<"n", "e", "x", "t", ",", " ">>
      [] word = "let's " -> <<"l", "e", "t", "'", "s", " ">>
      [] word = "we need to " -> <<"w", "e", " ", "n", "e", "e", "d", " ", "t", "o", " ">>
      [] word = "you'll need to " -> <<"y", "o", "u", "'", "l", "l", " ", "n", "e", "e", "d", " ", "t", "o", " ">>
      [] word = "no need to " -> <<"n", "o", " ", "n", "e", "e", "d", " ", "t", "o", " ">>
      [] word = "there's no need " -> <<"t", "h", "e", "r", "e", "'", "s", " ", "n", "o", " ", "n", "e", "e", "d", " ">>
      [] word = "> " -> <<">", " ">>
      [] word = "|" -> <<"|">>
      [] word = "*bookmark" -> <<"*", "b", "o", "o", "k", "m", "a", "r", "k">>
      [] word = "- [ ] " -> <<"-", " ", "[", " ", "]", " ">>
      [] word = ">" -> <<">">>
      [] word = "const" -> <<"c", "o", "n", "s", "t">>
      [] word = "let" -> <<"l", "e", "t">>
      [] word = "var" -> <<"v", "a", "r">>
      [] word = "function" -> <<"f", "u", "n", "c", "t", "i", "o", "n">>
      [] word = "=>" -> <<"=", ">">>
      [] word = "===" -> <<"=", "=", "=">>
      [] word = "!==" -> <<"!", "=", "=">>
      [] word = "must" -> <<"m", "u", "s", "t">>
      [] word = "critical" -> <<"c", "r", "i", "t", "i", "c", "a", "l">>
      [] word = "urgent" -> <<"u", "r", "g", "e", "n", "t">>
      [] word = "blocker" -> <<"b", "l", "o", "c", "k", "e", "r">>
      [] word = "breaking" -> <<"b", "r", "e", "a", "k", "i", "n", "g">>
      [] word = "immediately" -> <<"i", "m", "m", "e", "d", "i", "a", "t", "e", "l", "y">>
      [] word = "should" -> <<"s", "h", "o", "u", "l", "d">>
      [] word = "important" -> <<"i", "m", "p", "o", "r", "t", "a", "n", "t">>
      [] word = "next" -> <<"n", "e", "x", "t">>
      [] word = "before" -> <<"b", "e", "f", "o", "r", "e">>
      [] word = "required" -> <<"r", "e", "q", "u", "i", "r", "e", "d">>
      [] word = "TODO:" -> <<"T", "O", "D", "O", ":">>
      [] word = "FIXME:" -> <<"F", "I", "X", "M", "E", ":">>
      [] word = "//" -> <<"/", "/">>
      [] word = "--" -> <<"-", "-">>
      [] word = "%%" -> <<"%", "%">>
      [] word = "- [ ]" -> <<"-", " ", "[", " ", "]">>
      [] word = "let's use approach A because it's simpler, not approach B" -> <<"l", "e", "t", "'", "s", " ", "u", "s", "e", " ", "a", "p", "p", "r", "o", "a", "c", "h", " ", "A", " ", "b", "e", "c", "a", "u", "s", "e", " ", "i", "t", "'", "s", " ", "s", "i", "m", "p", "l", "e", "r", ",", " ", "n", "o", "t", " ", "a", "p", "p", "r", "o", "a", "c", "h", " ", "B">>
      [] word = "We decided to use approach A instead of approach B. The advantage is that it is simpler to maintain" -> <<"W", "e", " ", "d", "e", "c", "i", "d", "e", "d", " ", "t", "o", " ", "u", "s", "e", " ", "a", "p", "p", "r", "o", "a", "c", "h", " ", "A", " ", "i", "n", "s", "t", "e", "a", "d", " ", "o", "f", " ", "a", "p", "p", "r", "o", "a", "c", "h", " ", "B", ".", " ", "T", "h", "e", " ", "a", "d", "v", "a", "n", "t", "a", "g", "e", " ", "i", "s", " ", "t", "h", "a", "t", " ", "i", "t", " ", "i", "s", " ", "s", "i", "m", "p", "l", "e", "r", " ", "t", "o", " ", "m", "a", "i", "n", "t", "a", "i", "n">>
      [] word = "we still need to write the tests for the parser module" -> <<"w", "e", " ", "s", "t", "i", "l", "l", " ", "n", "e", "e", "d", " ", "t", "o", " ", "w", "r", "i", "t", "e", " ", "t", "h", "e", " ", "t", "e", "s", "t", "s", " ", "f", "o", "r", " ", "t", "h", "e", " ", "p", "a", "r", "s", "e", "r", " ", "m", "o", "d", "u", "l", "e">>
      [] word = "TODO: add the retry logic to the uploader" -> <<"T", "O", "D", "O", ":", " ", "a", "d", "d", " ", "t", "h", "e", " ", "r", "e", "t", "r", "y", " ", "l", "o", "g", "i", "c", " ", "t", "o", " ", "t", "h", "e", " ", "u", "p", "l", "o", "a", "d", "e", "r">>
      [] word = "thanks, that works" -> <<"t", "h", "a", "n", "k", "s", ",", " ", "t", "h", "a", "t", " ", "w", "o", "r", "k", "s">>
      [] word = "We decided to use the incremental parser instead of rescans for the whole transcript today" -> <<"W", "e", " ", "d", "e", "c", "i", "d", "e", "d", " ", "t", "o", " ", "u", "s", "e", " ", "t", "h", "e", " ", "i", "n", "c", "r", "e", "m", "e", "n", "t", "a", "l", " ", "p", "a", "r", "s", "e", "r", " ", "i", "n", "s", "t", "e", "a", "d", " ", "o", "f", " ", "r", "e", "s", "c", "a", "n", "s", " ", "f", "o", "r", " ", "t", "h", "e", " ", "w", "h", "o", "l", "e", " ", "t", "r", "a", "n", "s", "c", "r", "i", "p", "t", " ", "t", "o", "d", "a", "y">>
      [] word = "We DECIDED TO USE THE INCREMENTAL PARSER INSTEAD OF RESCANS on every single capture" -> <<"W", "e", " ", "D", "E", "C", "I", "D", "E", "D", " ", "T", "O", " ", "U", "S", "E", " ", "T", "H", "E", " ", "I", "N", "C", "R", "E", "M", "E", "N", "T", "A", "L", " ", "P", "A", "R", "S", "E", "R", " ", "I", "N", "S", "T", "E", "A", "D", " ", "O", "F", " ", "R", "E", "S", "C", "A", "N", "S", " ", "o", "n", " ", "e", "v", "e", "r", "y", " ", "s", "i", "n", "g", "l", "e", " ", "c", "a", "p", "t", "u", "r", "e">>
      [] word = "We decided: incremental parser instead of the full rescan at each capture" -> <<"W", "e", " ", "d", "e", "c", "i", "d", "e", "d", ":", " ", "i", "n", "c", "r", "e", "m", "e", "n", "t", "a", "l", " ", "p", "a", "r", "s", "e", "r", " ", "i", "n", "s", "t", "e", "a", "d", " ", "o", "f", " ", "t", "h", "e", " ", "f", "u", "l", "l", " ", "r", "e", "s", "c", "a", "n", " ", "a", "t", " ", "e", "a", "c", "h", " ", "c", "a", "p", "t", "u", "r", "e">>
      [] word = "We chose the sqlite store instead of flat json files for the snapshot index" -> <<"W", "e", " ", "c", "h", "o", "s", "e", " ", "t", "h", "e", " ", "s", "q", "l", "i", "t", "e", " ", "s", "t", "o", "r", "e", " ", "i", "n", "s", "t", "e", "a", "d", " ", "o", "f", " ", "f", "l", "a", "t", " ", "j", "s", "o", "n", " ", "f", "i", "l", "e", "s", " ", "f", "o", "r", " ", "t", "h", "e", " ", "s", "n", "a", "p", "s", "h", "o", "t", " ", "i", "n", "d", "e", "x">>
      [] word = "We decided to keep the trail entries short instead of storing the full rationale text, and it is so that the hot path is small" -> <<"W", "e", " ", "d", "e", "c", "i", "d", "e", "d", " ", "t", "o", " ", "k", "e", "e", "p", " ", "t", "h", "e", " ", "t", "r", "a", "i", "l", " ", "e", "n", "t", "r", "i", "e", "s", " ", "s", "h", "o", "r", "t", " ", "i", "n", "s", "t", "e", "a", "d", " ", "o", "f", " ", "s", "t", "o", "r", "i", "n", "g", " ", "t", "h", "e", " ", "f", "u", "l", "l", " ", "r", "a", "t", "i", "o", "n", "a", "l", "e", " ", "t", "e", "x", "t", ",", " ", "a", "n", "d", " ", "i", "t", " ", "i", "s", " ", "s", "o", " ", "t", "h", "a", "t", " ", "t", "h", "e", " ", "h", "o", "t", " ", "p", "a", "t", "h", " ", "i", "s", " ", "s", "m", "a", "l", "l">>
      [] word = ". The advantage is clear" -> <<".", " ", "T", "h", "e", " ", "a", "d", "v", "a", "n", "t", "a", "g", "e", " ", "i", "s", " ", "c", "l", "e", "a", "r">>
      [] word = "the" -> <<"t", "h", "e">>
      [] word = "a" -> <<"a">>
      [] word = "an" -> <<"a", "n">>
      [] word = "is" -> <<"i", "s">>
      [] word = "are" -> <<"a", "r", "e">>
      [] word = "was" -> <<"w", "a", "s">>
      [] word = "were" -> <<"w", "e", "r", "e">>
      [] word = "to" -> <<"t", "o">>
      [] word = "for" -> <<"f", "o", "r">>
      [] word = "of" -> <<"o", "f">>
      [] word = "in" -> <<"i", "n">>
      [] word = "on" -> <<"o", "n">>
      [] word = "at" -> <<"a", "t">>
      [] word = "by" -> <<"b", "y">>
      [] word = "with" -> <<"w", "i", "t", "h">>
      [] word = "from" -> <<"f", "r", "o", "m">>
      [] word = "that" -> <<"t", "h", "a", "t">>
      [] word = "this" -> <<"t", "h", "i", "s">>
      [] word = "it" -> <<"i", "t">>
      [] word = "and" -> <<"a", "n", "d">>
      [] word = "or" -> <<"o", "r">>
      [] word = "but" -> <<"b", "u", "t">>
      [] word = "not" -> <<"n", "o", "t">>
      [] word = "be" -> <<"b", "e">>
      [] word = "has" -> <<"h", "a", "s">>
      [] word = "have" -> <<"h", "a", "v", "e">>
      [] word = "had" -> <<"h", "a", "d">>
      [] word = "do" -> <<"d", "o">>
      [] word = "does" -> <<"d", "o", "e", "s">>
      [] word = "use" -> <<"u", "s", "e">>
      [] word = "using" -> <<"u", "s", "i", "n", "g">>
      [] word = "used" -> <<"u", "s", "e", "d">>
      [] word = "misc" -> <<"m", "i", "s", "c">>
      [] word = "approach A" -> <<"a", "p", "p", "r", "o", "a", "c", "h", " ", "A">>

IdA == Chars("SNAP_") \o Chars("20261102") \o Chars("_") \o Chars("103000")
IdB == Chars("SNAP_") \o Chars("20261102") \o Chars("_") \o Chars("103001")

\* identifier texts, each with the shape it was written to have
SnapshotIdTexts ==
    LET up == Chars("..") \o Chars("/")
        malformed ==
            { << >>,
              Chars("SNAP_") \o Chars("20261102"),
              Chars("snap_") \o Chars("20261102") \o Chars("_") \o Chars("103000"),
              Chars("SNAP_") \o Tail(Chars("20261102")) \o Chars("_") \o Chars("103000"),
              IdA \o <<"7">>,
              Chars("SNAP_") \o Chars("20261102") \o Chars("_") \o Chars("10300x"),
              IdA \o <<"\n">>,
              IdA \o Chars(".json"),
              Chars("state") }
        traversal ==
            { up \o Chars("state"),
              up \o up \o Chars("secret"),
              up \o Chars("snapshots") \o Chars("/") \o IdA,
              IdA \o Chars("/") \o up \o up \o Chars("state"),
              IdB \o Chars("/") \o up \o IdA,
              Chars("/") \o Chars("secret") }
    IN  { [ text |-> x, shape |-> "well-formed" ] : x \in { IdA, IdB } }
            \cup { [ text |-> x, shape |-> "malformed" ] : x \in malformed }
            \cup { [ text |-> x, shape |-> "traversal" ] : x \in traversal }

\* \d
IsDigit(c) == c \in { "0", "1", "2", "3", "4", "5", "6", "7", "8", "9" }

\* /^SNAP_\d{8}_\d{6}$/.test(snapshotId)
TestSnapshotId(snapshotId) ==
    /\ Len(snapshotId) = 5 + 8 + 1 + 6
    /\ SubSeq(snapshotId, 1, 5) = Chars("SNAP_")
    /\ \A i \in 6..13 : IsDigit(snapshotId[i])
    /\ snapshotId[14] = "_"
    /\ \A i \in 15..20 : IsDigit(snapshotId[i])

\* the segments of a text between its slashes
RECURSIVE SplitPath(_, _)
SplitPath(text, segment) ==
    IF text = << >> THEN <<segment>>
    ELSE IF Head(text) = "/" THEN <<segment>> \o SplitPath(Tail(text), << >>)
    ELSE SplitPath(Tail(text), Append(segment, Head(text)))

\* path.normalize: empty segments vanish, ".." drops the segment before it
RECURSIVE Normalize(_, _)
Normalize(segments, path) ==
    IF segments = << >> THEN path
    ELSE LET seg == Head(segments)
         IN  CASE seg = << >> -> Normalize(Tail(segments), path)
               [] seg = Chars("..") ->
                    Normalize(Tail(segments),
                              IF path = << >> THEN path ELSE SubSeq(path, 1, Len(path) - 1))
               [] OTHER -> Normalize(Tail(segments), Append(path, seg))

\* path.join(dir, name)
join(dir, name) == Normalize(SplitPath(name, << >>), dir)

getSnapshotsDir == join(<<Chars("bookmarks")>>, Chars("snapshots"))

\* files on disk, path -> content: each of the two snapshot files absent,
\* a snapshot or unparseable; state.json and a file outside the storage
\* directory, or neither
Disks ==
    LET none == [ path \in {} |-> "" ]
        file(id, content) ==
            IF content = "absent" THEN none
            ELSE join(getSnapshotsDir, id \o Chars(".json")) :> content
        outside == (join(<<Chars("bookmarks")>>, Chars("state") \o Chars(".json")) :> "state")
                       @@ (<<Chars("secret") \o Chars(".json")>> :> "secret")
        contents == { "absent", "snapshot", "corrupt" }
    IN  { file(IdA, a) @@ file(IdB, b) @@ o :
            a \in contents, b \in contents, o \in { none, outside } }

\* return null
NotFound == [ value |-> "null", read |-> {}, raised |-> FALSE ]

\* try { return JSON.parse(readFileSync(path)) } catch { return null }
ReadJson(disk, path) ==
    [ value |-> IF disk[path] = "corrupt" THEN "null" ELSE disk[path],
      read |-> {path}, raised |-> FALSE ]

loadSnapshotUnvalidated(disk, snapshotId) ==
    LET snapshotPath == join(getSnapshotsDir, snapshotId \o Chars(".json"))
    IN  IF snapshotPath \notin DOMAIN disk THEN NotFound
        ELSE ReadJson(disk, snapshotPath)

loadSnapshotById(disk, snapshotId) ==
    IF ~TestSnapshotId(snapshotId) THEN NotFound
    ELSE LET snapshotPath == join(getSnapshotsDir, snapshotId \o Chars(".json"))
         IN  IF snapshotPath \notin DOMAIN disk THEN NotFound
             ELSE ReadJson(disk, snapshotPath)

ApplyLoadSnapshot ==
    /\ ~fnOut.done
    /\ fnOut' = [ done |-> TRUE, fn |-> "loadSnapshot",
                  result |-> loadSnapshotById(fnIn.disk, fnIn.id.text) ]
    /\ UNCHANGED <<now, config, diskVars, pc, inv, loc, raced, fnIn>>

InitLoad ==
    /\ InitProject
    /\ config = DEFAULTS
    /\ dirExists = FALSE
    /\ fnIn \in { [ id |-> i, disk |-> d ] : i \in SnapshotIdTexts, d \in Disks }

SpecLoad == InitLoad /\ [][ApplyLoadSnapshot]_vars

-----------------------------------------------------------------------------
(* transcript/extractor.ts extractUserSentiment.  An entry is its type,     *)
(* whether it has text, and whether some POSITIVE_PATTERNS and some         *)
(* NEGATIVE_PATTERNS entry matches the text.                                *)

MaxEntries == 4

TranscriptEntries ==
    { [ type |-> "user", text |-> TRUE, positive |-> a, negative |-> b ] :
        a \in BOOLEAN, b \in BOOLEAN }
        \cup { [ type |-> "user", text |-> FALSE, positive |-> FALSE, negative |-> FALSE ],
               [ type |-> "assistant", text |-> TRUE, positive |-> TRUE, negative |-> FALSE ] }

\* the loop from index i (1-based) to the end: the two counters
RECURSIVE SentimentHits(_, _, _)
SentimentHits(entries, i, hits) ==
    IF i > Len(entries) THEN hits
    ELSE LET entry == entries[i]
         IN  IF entry.type # "user" \/ ~entry.text
             THEN SentimentHits(entries, i + 1, hits)
             ELSE SentimentHits(entries, i + 1,
                    [ positive |-> hits.positive + (IF entry.positive THEN 1 ELSE 0),
                      negative |-> hits.negative + (IF entry.negative THEN 1 ELSE 0) ])

extractUserSentiment(entries) ==
    LET startIdx == (Len(entries) * 7) \div 10
        hits == SentimentHits(entries, startIdx + 1, [ positive |-> 0, negative |-> 0 ])
    IN  IF hits.positive > hits.negative /\ hits.positive >= 2 THEN "positive"
        ELSE IF hits.negative > hits.positive /\ hits.negative >= 2 THEN "negative"
        ELSE "neutral"

ApplyExtractUserSentiment ==
    /\ ~fnOut.done
    /\ fnOut' = [ done |-> TRUE, fn |-> "extractUserSentiment",
                  sentiment |-> extractUserSentiment(fnIn.entries) ]
    /\ UNCHANGED <<now, config, diskVars, pc, inv, loc, raced, fnIn>>

InitSentiment ==
    /\ InitProject
    /\ config = DEFAULTS
    /\ dirExists = FALSE
    /\ fnIn \in { [ entries |-> e ] :
                    e \in UNION { [1..n -> TranscriptEntries] : n \in 0..MaxEntries } }

SpecSentiment == InitSentiment /\ [][ApplyExtractUserSentiment]_vars

-----------------------------------------------------------------------------
(* Texts as character sequences, and transcript/extractor.ts               *)
(* extractDecisions and extractOpenItems on them.                           *)

\* String.prototype.toLowerCase
toLowerCase(text) ==
    LET upper == Chars("ABCDEFGHIJKLMNOPQRSTUVWXYZ")
        lower == Chars("abcdefghijklmnopqrstuvwxyz")
        low(c) == IF \E i \in 1..26 : upper[i] = c
                  THEN lower[CHOOSE i \in 1..26 : upper[i] = c] ELSE c
    IN  [ i \in 1..Len(text) |-> low(text[i]) ]

\* \w and \s
IsWordChar(c) ==
    \/ IsDigit(c) \/ c = "_"
    \/ \E i \in 1..26 : toLowerCase(<<c>>)[1] = Chars("abcdefghijklmnopqrstuvwxyz")[i]
IsSpace(c) == c \in { " ", "\n", "\t" }

\* \b between text[i-1] and text[i]
WordBoundary(text, i) ==
    LET w(j) == j >= 1 /\ j <= Len(text) /\ IsWordChar(text[j])
    IN  w(i - 1) # w(i)

\* phrase stands in text at position i
Occurs(text, phrase, i) ==
    /\ i >= 1 /\ i + Len(phrase) - 1 <= Len(text)
    /\ SubSeq(text, i, i + Len(phrase) - 1) = phrase

\* /\b(?:phrase|phrase|...)\b/i.test(text), the phrases in lower case
TestWords(text, phrases) ==
    LET t == toLowerCase(text)
    IN  \E p \in phrases : \E i \in 1..Len(t) :
            Occurs(t, p, i) /\ WordBoundary(t, i) /\ WordBoundary(t, i + Len(p))

\* /^(?:prefix|prefix|...)/.test(text)
TestStart(text, prefixes) ==
    \E p \in prefixes : Occurs(text, p, 1)

\* String.prototype.split on a set of separator characters
Split(text, separators) ==
    LET cuts == { i \in 1..Len(text) : text[i] \in separators }
        n == Cardinality(cuts)
        cut(k) == IF k = 0 THEN 0
                  ELSE IF k = n + 1 THEN Len(text) + 1
                  ELSE CHOOSE i \in cuts : Cardinality({ j \in cuts : j <= i }) = k
    IN  [ k \in 1..(n + 1) |-> SubSeq(text, cut(k - 1) + 1, cut(k) - 1) ]

\* String.prototype.trim
trim(text) ==
    LET solid == { i \in 1..Len(text) : ~IsSpace(text[i]) }
    IN  IF solid = {} THEN << >>
        ELSE SubSeq(text, CHOOSE i \in solid : \A j \in solid : i <= j,
                          CHOOSE i \in solid : \A j \in solid : i >= j)

\* text.slice(0, n)
slice(text, n) == SubSeq(text, 1, Min(n, Len(text)))

\* text.split(/\s+/).length
WordCount(text) ==
    1 + Cardinality({ i \in 1..Len(text) : IsSpace(text[i]) /\ (i = 1 \/ ~IsSpace(text[i - 1])) })

\* text.split(/[.!?\n]/).filter(s => s.trim().length > 25)
Sentences(text) ==
    SelectSeq(Split(text, { ".", "!", "?", "\n" }), LAMBDA piece : Len(trim(piece)) > 25)

DECISION_PATTERNS ==
    << { Chars("decided to"), Chars("chose"), Chars("going with"), Chars("approach:"),
         Chars("instead of"), Chars("opted for"), Chars("settled on") },
       { Chars("rationale:"), Chars("reason:"), Chars("the advantage"), Chars("better approach") } >>

DECISION_NOISE ==
    { Chars("let me "), Chars("i'll "), Chars("ok so "), Chars("now "), Chars("here "),
      Chars("the "), Chars("this "), Chars("it returned"), Chars("0 "), Chars("first ") }

\* /^#{1,3}\s/m.test(text) || /^{bt}{bt}{bt}/m.test(text), where {bt} is the
\* backtick, which is written "backtick" as a character
IsFormatted(text) ==
    LET lines == Split(text, { "\n" })
    IN  \E k \in 1..Len(lines) :
            \/ Occurs(lines[k], Chars("{bt}{bt}{bt}"), 1)
            \/ \E h \in { Chars("#"), Chars("##"), Chars("###") } :
                 /\ Occurs(lines[k], h, 1)
                 /\ IF Len(lines[k]) > Len(h) THEN IsSpace(lines[k][Len(h) + 1])
                    ELSE k < Len(lines)

\* text.replace(/q[^q]*q/g, '') for a quote character q: the quotes pair
\* up from the left, and a pair goes with what it encloses
StripQuoted(text, q) ==
    LET quotes == { i \in 1..Len(text) : text[i] = q }
        before(i) == Cardinality({ j \in quotes : j < i })
        paired == 2 * (Cardinality(quotes) \div 2)
        removed(i) == IF text[i] = q THEN before(i) + 1 <= paired
                      ELSE before(i) % 2 = 1 /\ before(i) < paired
        kept == { i \in 1..Len(text) : ~removed(i) }
    IN  [ k \in 1..Cardinality(kept) |->
            text[CHOOSE i \in kept : Cardinality({ j \in kept : j <= i }) = k] ]

\* /^\d+c/.test(text) for a character c
TestDigitsThen(text, c) ==
    \E n \in 1..(Len(text) - 1) : text[n + 1] = c /\ \A i \in 1..n : IsDigit(text[i])

\* keep the first of the items whose keys, the first n characters in lower
\* case, are equal: the `seen` set
RECURSIVE DedupByKey(_, _, _)
DedupByKey(items, n, kept) ==
    IF items = << >> THEN kept
    ELSE LET key(d) == slice(toLowerCase(d.description), n)
         IN  DedupByKey(Tail(items), n,
                        IF \E k \in 1..Len(kept) : key(kept[k]) = key(Head(items))
                        THEN kept ELSE Append(kept, Head(items)))

\* the decisions that an assistant entry contributes, before deduplication
SentenceDecisions(entry) ==
    LET text == entry.content
        clean(sentence) == slice(trim(sentence), 150)
        flagged(c) == \E i \in 1..(Len(c) - 1) :
                          /\ c[i] \in { "/", "\\" } /\ c[i + 1] \in { "b", "i", "s" }
                          /\ WordBoundary(c, i + 2)
        keep(sentence) ==
            /\ TestWords(sentence, DECISION_PATTERNS[1])
            /\ ~TestStart(toLowerCase(clean(sentence)), DECISION_NOISE)
            /\ WordCount(clean(sentence)) >= 6
            /\ ~Occurs(clean(sentence), Chars("**"), 1)
            /\ ~flagged(clean(sentence))
        kept == SelectSeq(Sentences(text), keep)
    IN  IF \/ Len(text) < 30 \/ Len(text) > 2000
           \/ IsFormatted(text)
           \/ ~TestWords(text, DECISION_PATTERNS[1])
           \/ ~TestWords(text, DECISION_PATTERNS[2])
        THEN << >>
        ELSE [ k \in 1..Len(kept) |-> [ description |-> clean(kept[k]) ] ]

\* a variant that scans the entries of every speaker
DecisionsOfAnySpeaker(entry) == SentenceDecisions(entry)

\* the decisions that one entry contributes: assistant entries only
DecisionsOf(entry) ==
    IF entry.type # "assistant" THEN << >> ELSE SentenceDecisions(entry)

RECURSIVE extractDecisionsFrom(_, _)
extractDecisionsFrom(entries, found) ==
    IF entries = << >> THEN found
    ELSE extractDecisionsFrom(Tail(entries), found \o DecisionsOf(Head(entries)))

extractDecisions(entries) ==
    slice(DedupByKey(extractDecisionsFrom(entries, << >>), 50, << >>), 6)

OPEN_ITEM_PATTERNS ==
    { Chars("still need to"), Chars("todo"), Chars("next step"), Chars("remaining"),
      Chars("left to do"), Chars("pending"),
      Chars("will need to"), Chars("must still"), Chars("haven't implemented") }

OPEN_ITEM_NOISE ==
    { Chars("let me "), Chars("i'll "), Chars("i need to "), Chars("i should "), Chars("now i "),
      Chars("now let me "), Chars("first "), Chars("first, "), Chars("next "), Chars("next, "),
      Chars("let's "), Chars("we need to "), Chars("you'll need to "), Chars("no need to "),
      Chars("there's no need "), Chars("> "), Chars("|"), Chars("{bt}{bt}{bt}"),
      Chars("*bookmark") }

\* one of the OPEN_ITEM_NOISE patterns matches; "arrow" is the character
\* that follows the line number in the output of a file read
IsOpenItemNoise(clean) ==
    \/ TestStart(toLowerCase(clean), OPEN_ITEM_NOISE)
    \/ TestStart(clean, { Chars("SNAP_") })
    \/ TestDigitsThen(clean, "arrow") \/ TestDigitsThen(clean, "|")
    \/ /\ Occurs(clean, Chars("- [ ] "), 1)
       /\ \/ Occurs(clean, Chars(">"), 7)
          \/ TestDigitsThen(SubSeq(clean, 7, Len(clean)), "arrow")

isCodeArtifact(text) ==
    LET at(i) == IF i >= 1 /\ i <= Len(text) THEN text[i] ELSE "none"
        lowerLetter(c) == \E k \in 1..26 : Chars("abcdefghijklmnopqrstuvwxyz")[k] = c
        ticks == { i \in 1..Len(text) : text[i] = "backtick" }
    IN  \/ \E i \in 1..Len(text) :
             /\ text[i] = "/"
             /\ \/ at(i + 1) \in { "^", "$", "(", "[" }
                \/ at(i + 1) = "\\" /\ at(i + 2) \notin { "none", "\n" }
                \/ \E n \in 1..Len(text) :
                     /\ at(i + n + 1) = "|"
                     /\ \A k \in 1..n : lowerLetter(at(i + k))
        \/ \E kw \in { Chars("const"), Chars("let"), Chars("var"), Chars("function"),
                       Chars("=>"), Chars("==="), Chars("!==") } :
             \E i \in 1..Len(text) : Occurs(text, kw, i) /\ IsSpace(at(i + Len(kw)))
        \/ /\ \E i \in ticks : \E j \in ticks :
                j > i + 1 /\ \A k \in (i + 1)..(j - 1) : k \notin ticks
           /\ \E i \in ticks : i <= 20
        \/ Cardinality({ i \in 1..Len(text) : text[i] = "|" }) >= 2
        \/ at(1) # "none" /\ trim(text) # << >> /\ Head(trim(text)) \in { ":", "-", "*", "#", ">" }

inferPriority(text) ==
    IF TestWords(text, { Chars("must"), Chars("critical"), Chars("urgent"), Chars("blocker"),
                         Chars("breaking"), Chars("immediately") }) THEN "high"
    ELSE IF TestWords(text, { Chars("should"), Chars("important"), Chars("next"),
                              Chars("before"), Chars("required") }) THEN "medium"
    ELSE "low"

\* stripped.match(/^[ \t]*(?:\/\/|#|--|%%)?\s*(?:TODO|FIXME):\s+(.{10,100})/gm)
\* for texts in which a marker and its text stand on one line: the matches,
\* one per line that has one
TodoMatches(stripped) ==
    LET lines == Split(stripped, { "\n" })
        blank(line, a, b) == \A k \in a..b : line[k] \in { " ", "\t" }
        \* the marker starts at t, the matched text at v
        matchEnd(line) ==
            { v + Min(Len(line) - v + 1, 100) - 1 :
                v \in { v \in 1..Len(line) :
                          /\ Len(line) - v + 1 >= 10
                          /\ ~IsSpace(line[v])
                          /\ \E t \in 1..v : \E m \in { Chars("TODO:"), Chars("FIXME:") } :
                               /\ Occurs(line, m, t)
                               /\ t + Len(m) < v
                               /\ blank(line, t + Len(m), v - 1)
                               /\ \/ blank(line, 1, t - 1)
                                  \/ \E c \in { Chars("//"), Chars("#"), Chars("--"), Chars("%%") } :
                                       \E a \in 1..t : /\ Occurs(line, c, a)
                                                       /\ blank(line, 1, a - 1)
                                                       /\ blank(line, a + Len(c), t - 1) } }
        matched == SelectSeq(lines, LAMBDA line : matchEnd(line) # {})
    IN  [ k \in 1..Len(matched) |->
            SubSeq(matched[k], 1, CHOOSE e \in matchEnd(matched[k]) : TRUE) ]

\* the open items that one entry contributes, before deduplication
OpenItemsOf(entry) ==
    LET text == entry.content
        clean(sentence) == slice(trim(sentence), 150)
        todos == slice(TodoMatches(StripQuoted(StripQuoted(text, "backtick"), "\"")), 2)
        keptTodos == SelectSeq([ k \in 1..Len(todos) |-> trim(todos[k]) ],
                               LAMBDA c : ~isCodeArtifact(c))
        keep(sentence) ==
            /\ \/ TestWords(sentence, OPEN_ITEM_PATTERNS)
               \/ \E i \in 1..Len(sentence) : Occurs(sentence, Chars("- [ ]"), i)
            /\ ~IsOpenItemNoise(clean(sentence))
            /\ WordCount(clean(sentence)) >= 5
            /\ ~isCodeArtifact(clean(sentence))
        kept == SelectSeq(Sentences(text), keep)
    IN  IF entry.type \notin { "assistant", "user" } \/ text = << >> \/ Len(text) > 2000
        THEN << >>
        ELSE IF entry.type = "assistant"
        THEN [ k \in 1..Len(keptTodos) |-> [ description |-> keptTodos[k], priority |-> "medium" ] ]
        ELSE [ k \in 1..Len(kept) |->
                 [ description |-> clean(kept[k]), priority |-> inferPriority(clean(kept[k])) ] ]

\* entries i down to startIdx + 1, newest first
RECURSIVE extractOpenItemsFrom(_, _, _)
extractOpenItemsFrom(entries, i, found) ==
    IF i <= (Len(entries) * 7) \div 10 THEN found
    ELSE extractOpenItemsFrom(entries, i - 1, found \o OpenItemsOf(entries[i]))

extractOpenItems(entries) ==
    slice(DedupByKey(extractOpenItemsFrom(entries, Len(entries), << >>), 50, << >>), 5)

MaxTranscript == 2

ScenarioText == Chars("let's use approach A because it's simpler, not approach B")

MessageTexts ==
    { ScenarioText,
      Chars("We decided to use approach A instead of approach B. The advantage is that it is simpler to maintain"),
      Chars("we still need to write the tests for the parser module"),
      Chars("TODO: add the retry logic to the uploader"),
      Chars("thanks, that works") }

Messages == { [ type |-> t, content |-> c ] : t \in { "user", "assistant" }, c \in MessageTexts }

\* extractFromEntries: the decisions and the open items
ApplyExtractFromEntries ==
    /\ ~fnOut.done
    /\ fnOut' = [ done |-> TRUE, fn |-> "extractFromEntries",
                  decisions |-> extractDecisions(fnIn.entries),
                  open_items |-> extractOpenItems(fnIn.entries) ]
    /\ UNCHANGED <<now, config, diskVars, pc, inv, loc, raced, fnIn>>

InitExtract ==
    /\ InitProject
    /\ config = DEFAULTS
    /\ dirExists = FALSE
    /\ fnIn \in { [ entries |-> e ] : e \in UNION { [1..n -> Messages] : n \in 1..MaxTranscript } }

SpecExtract == InitExtract /\ [][ApplyExtractFromEntries]_vars

-----------------------------------------------------------------------------
(* transcript/estimator.ts.  Fractions are in hundredths, which is what     *)
(* Math.round(x * 100) / 100 keeps; the capacity and the characters per     *)
(* token are positive.                                                      *)

DEFAULT_CONTEXT_LIMIT == 200000
CHARS_PER_TOKEN == 4

\* Math.ceil(a / b) for a >= 0, b > 0
Ceil(a, b) == (a + b - 1) \div b

\* Math.round(100 * a / b) for b > 0: halves go up
RoundHundredths(a, b) == (200 * a + b) \div (2 * b)

Max(a, b) == IF a >= b THEN a ELSE b

emptyEstimate(contextLimit) ==
    [ total_tokens |-> 0, remaining_pct |-> 100, remaining_tokens |-> contextLimit ]

\* a variant without Math.max(0, ...)
estimateFromTranscriptUnfloored(exists, chars, contextLimit, charsPerToken) ==
    LET totalTokens == Ceil(chars.user + chars.assistant + chars.tool + chars.system, charsPerToken)
    IN  [ total_tokens |-> totalTokens,
          remaining_pct |-> RoundHundredths(contextLimit - totalTokens, contextLimit),
          remaining_tokens |-> contextLimit - totalTokens ]

\* chars: the summed lengths of the string contents of the parsed entries,
\* by kind of entry
estimateFromTranscript(exists, chars, contextLimit, charsPerToken) ==
    IF ~exists THEN emptyEstimate(contextLimit)
    ELSE LET totalChars == chars.user + chars.assistant + chars.tool + chars.system
             totalTokens == Ceil(totalChars, charsPerToken)
             remainingTokens == Max(0, contextLimit - totalTokens)
         IN  [ total_tokens |-> totalTokens,
               remaining_pct |-> IF contextLimit > 0
                                 THEN RoundHundredths(remainingTokens, contextLimit) ELSE 100,
               remaining_tokens |-> remainingTokens ]

\* size: stat.size; statFails: statSync throws
quickEstimate(exists, statFails, size, contextLimit, charsPerToken) ==
    IF ~exists \/ statFails THEN [ estimatedTokens |-> 0, remainingPct |-> 100 ]
    ELSE LET estimatedTokens == Ceil(size * 7, 10 * charsPerToken)
         IN  [ estimatedTokens |-> estimatedTokens,
               remainingPct |-> Max(0, RoundHundredths(contextLimit - estimatedTokens, contextLimit)) ]

ApplyEstimateFromTranscript ==
    /\ ~fnOut.done
    /\ LET e == estimateFromTranscript(fnIn.exists, fnIn.chars, fnIn.contextLimit, fnIn.charsPerToken)
       IN  fnOut' = [ done |-> TRUE, fn |-> "estimateFromTranscript",
                      tokens |-> e.total_tokens, remaining |-> e.remaining_pct ]
    /\ UNCHANGED <<now, config, diskVars, pc, inv, loc, raced, fnIn>>

ApplyQuickEstimate ==
    /\ ~fnOut.done
    /\ LET e == quickEstimate(fnIn.exists, fnIn.statFails, fnIn.size, fnIn.contextLimit,
                              fnIn.charsPerToken)
       IN  fnOut' = [ done |-> TRUE, fn |-> "quickEstimate",
                      tokens |-> e.estimatedTokens, remaining |-> e.remainingPct ]
    /\ UNCHANGED <<now, config, diskVars, pc, inv, loc, raced, fnIn>>

InitEstimate ==
    /\ InitProject
    /\ config = DEFAULTS
    /\ dirExists = FALSE
    /\ fnIn \in { [ exists |-> x, statFails |-> f, size |-> z, chars |-> c,
                    contextLimit |-> l, charsPerToken |-> t ] :
                    x \in BOOLEAN, f \in BOOLEAN,
                    z \in { 0, 1000, 4 * DEFAULT_CONTEXT_LIMIT, 8 * DEFAULT_CONTEXT_LIMIT },
                    c \in [ user : { 0, 3 }, assistant : { 0, 2 * DEFAULT_CONTEXT_LIMIT },
                            tool : { 0, 3 * DEFAULT_CONTEXT_LIMIT }, system : { 0, 50 } ],
                    l \in { 1, 1000, DEFAULT_CONTEXT_LIMIT },
                    t \in { 1, CHARS_PER_TOKEN } }

NextEstimate == ApplyEstimateFromTranscript \/ ApplyQuickEstimate

SpecEstimate == InitEstimate /\ [][NextEstimate]_vars

-----------------------------------------------------------------------------
(* transcript/parser.ts parseTranscript.  A file is the sequence of the     *)
(* pieces that raw.split('\n') yields; a piece is its length in bytes,      *)
(* what JSON.parse makes of it, and for a record the type and the blocks    *)
(* of message.content.  The records have no role, content, text, name,      *)
(* tool_name or tool_use_id of their own, as in Claude Code transcripts.    *)

MaxLines == 2

Undefined == "undefined"

TextBlock(text) == [ type |-> "text", id |-> Undefined, name |-> Undefined, text |-> text ]
ToolUse(id, name) == [ type |-> "tool_use", id |-> id, name |-> name, text |-> "" ]
ToolResult(toolUseId, content) ==
    [ type |-> "tool_result", id |-> toolUseId, name |-> Undefined, text |-> content ]

Record(bytes, type, blocks) == [ bytes |-> bytes, json |-> "record", type |-> type, blocks |-> blocks ]
Malformed(bytes) == [ bytes |-> bytes, json |-> "malformed", type |-> Undefined, blocks |-> << >> ]
Blank(bytes) == [ bytes |-> bytes, json |-> "blank", type |-> Undefined, blocks |-> << >> ]

\* the lines a transcript is made of
TranscriptLines ==
    { Record(5, "user", << TextBlock("hello") >>),
      Record(6, "assistant", << TextBlock("on it"), ToolUse("id1", "Bash") >>),
      Record(7, "user", << ToolResult("id1", "ok") >>),
      Record(8, "assistant", << ToolUse("id1", "Bash"), ToolUse("id2", "Edit"),
                                ToolResult("id2", "done"), ToolResult("id3", "lost") >>),
      Record(4, "Human", << ToolResult(Undefined, "") >>),
      Record(3, "summary", << >>),
      Malformed(3),
      Blank(2) }

inferType(raw) ==
    CASE raw.type \in { "user", "human", "User", "Human" } -> "user"
      [] raw.type \in { "assistant", "ai", "Assistant", "AI" } -> "assistant"
      [] raw.type \in { "tool_use", "tool_result", "system" } -> raw.type
      [] OTHER -> "null"

\* the texts that extractTextContent joins with newlines
extractTextContent(raw) ==
    LET texts == [ k \in 1..Len(raw.blocks) |-> raw.blocks[k].text ]
    IN  SelectSeq(texts, LAMBDA t : t # "")

normalizeEntry(raw) ==
    LET uses == SelectSeq(raw.blocks, LAMBDA b : b.type = "tool_use")
    IN  [ type |-> inferType(raw),
          content |-> extractTextContent(raw),
          tool_name |-> IF uses # << >> THEN Head(uses).name ELSE Undefined ]

\* toolIdToName.get(id)
ToolName(raw, id) ==
    LET named == { k \in 1..Len(raw.blocks) :
                     /\ raw.blocks[k].type = "tool_use"
                     /\ raw.blocks[k].id # Undefined /\ raw.blocks[k].name # Undefined
                     /\ raw.blocks[k].id = id }
    IN  IF named = {} THEN Undefined
        ELSE raw.blocks[CHOOSE k \in named : \A j \in named : j <= k].name

\* the entry pushed for one block of message.content
BlockEntry(raw, block) ==
    IF block.type = "tool_use"
    THEN IF block.name # Undefined
         THEN << [ type |-> "tool_use", content |-> << >>, tool_name |-> block.name ] >>
         ELSE << >>
    ELSE IF block.type = "tool_result"
    THEN LET resolvedName == IF block.id # Undefined THEN ToolName(raw, block.id) ELSE Undefined
         IN  << [ type |-> "tool_result",
                  content |-> IF block.text # "" THEN <<block.text>> ELSE << >>,
                  tool_name |-> IF resolvedName # Undefined THEN resolvedName ELSE block.id ] >>
    ELSE << >>

RECURSIVE BlockEntries(_, _)
BlockEntries(raw, blocks) ==
    IF blocks = << >> THEN << >>
    ELSE BlockEntry(raw, Head(blocks)) \o BlockEntries(raw, Tail(blocks))

\* the body of the try block for one piece: the entries it pushes
LineEntries(line) ==
    IF line.json # "record" THEN << >>
    ELSE (IF inferType(line) # "null" THEN << normalizeEntry(line) >> ELSE << >>)
             \o BlockEntries(line, line.blocks)

totalBytes(file) ==
    LET RECURSIVE Sum(_)
        Sum(pieces) == IF pieces = << >> THEN 0 ELSE Head(pieces).bytes + 1 + Sum(Tail(pieces))
    IN  Sum(file) - 1

\* the loop over the pieces
RECURSIVE ParseLines(_, _, _)
ParseLines(pieces, currentByteOffset, startOffset) ==
    IF pieces = << >> THEN << >>
    ELSE LET lineBytes == Head(pieces).bytes + 1
         IN  (IF currentByteOffset < startOffset THEN << >> ELSE LineEntries(Head(pieces)))
                 \o ParseLines(Tail(pieces), currentByteOffset + lineBytes, startOffset)

\* a variant that stops at the first malformed line
parseTranscriptStrict(file, startOffset) ==
    LET bad == { k \in 1..Len(file) : file[k].json = "malformed" }
        upTo == IF bad = {} THEN Len(file) ELSE (CHOOSE k \in bad : \A j \in bad : k <= j) - 1
    IN  [ entries |-> ParseLines(SubSeq(file, 1, upTo), 0, startOffset),
          bytesRead |-> totalBytes(file), totalBytes |-> totalBytes(file), raised |-> bad # {} ]

parseTranscript(file, startOffset) ==
    IF startOffset >= totalBytes(file)
    THEN [ entries |-> << >>, bytesRead |-> totalBytes(file), totalBytes |-> totalBytes(file),
           raised |-> FALSE ]
    ELSE [ entries |-> ParseLines(file, 0, startOffset),
           bytesRead |-> totalBytes(file), totalBytes |-> totalBytes(file), raised |-> FALSE ]

\* the file made of the lines, each ended by a newline
FileOf(lines) == Append(lines, Blank(0))

\* the first bytes of the file: n whole lines and p bytes of the next one
FilePrefix(lines, n, p) ==
    LET next == lines[n + 1]
    IN  SubSeq(lines, 1, n)
            \o << IF p = next.bytes THEN next
                  ELSE IF p = 0 \/ next.json = "blank" THEN Blank(p)
                  ELSE Malformed(p) >>

\* an earlier parse of the first bytes of the file, a later one of the whole
\* file from where the earlier one says it stopped, and parses of the whole
\* file from its start and from its end
ApplyParseTranscript ==
    /\ ~fnOut.done
    /\ LET file == FileOf(fnIn.lines)
           earlier == parseTranscript(FilePrefix(fnIn.lines, fnIn.whole, fnIn.part), 0)
       IN  fnOut' = [ done |-> TRUE, fn |-> "parseTranscript",
                      full |-> parseTranscript(file, 0),
                      earlier |-> earlier,
                      later |-> parseTranscript(file, earlier.bytesRead),
                      atEnd |-> parseTranscript(file, totalBytes(file)) ]
    /\ UNCHANGED <<now, config, diskVars, pc, inv, loc, raced, fnIn>>

InitParse ==
    /\ InitProject
    /\ config = DEFAULTS
    /\ dirExists = FALSE
    /\ \E n \in 1..MaxLines : \E lines \in [1..n -> TranscriptLines] :
          \E whole \in 0..(n - 1) : \E part \in 0..lines[whole + 1].bytes :
             fnIn = [ lines |-> lines, whole |-> whole, part |-> part ]

SpecParse == InitParse /\ [][ApplyParseTranscript]_vars

-----------------------------------------------------------------------------
(* trails/writer.ts: the decision trail.  decisions.md is modelled by what  *)
(* it holds: the active entries with their timestamps and the first 100     *)
(* characters of their descriptions, and the superseded entries with the    *)
(* first 80 characters and the timestamp that replaced them.  A timestamp   *)
(* is the number of the capture.                                            *)

MaxCaptures == 2

\* descriptions of decisions, as sentences of assistant messages
DecisionSentences ==
    { Chars("We decided to use the incremental parser instead of rescans for the whole transcript today"),
      Chars("We DECIDED TO USE THE INCREMENTAL PARSER INSTEAD OF RESCANS on every single capture"),
      Chars("We decided: incremental parser instead of the full rescan at each capture"),
      Chars("We chose the sqlite store instead of flat json files for the snapshot index"),
      Chars("We decided to keep the trail entries short instead of storing the full rationale text, and it is so that the hot path is small") }

DecisionMessages ==
    { [ type |-> "assistant", content |-> d \o Chars(". The advantage is clear") ] :
        d \in DecisionSentences }

stopWords ==
    { Chars("the"), Chars("a"), Chars("an"), Chars("is"), Chars("are"), Chars("was"),
      Chars("were"), Chars("to"), Chars("for"), Chars("of"), Chars("in"), Chars("on"),
      Chars("at"), Chars("by"), Chars("with"), Chars("from"), Chars("that"), Chars("this"),
      Chars("it"), Chars("and"), Chars("or"), Chars("but"), Chars("not"), Chars("be"),
      Chars("has"), Chars("have"), Chars("had"), Chars("do"), Chars("does"),
      Chars("use"), Chars("using"), Chars("used") }

\* what is left of the lower-cased description without [^a-z0-9\s]
TopicText(description) ==
    LET letters == Chars("abcdefghijklmnopqrstuvwxyz")
    IN  SelectSeq(toLowerCase(description),
                  LAMBDA c : IsSpace(c) \/ IsDigit(c) \/ \E k \in 1..26 : letters[k] = c)

\* the words that deriveTopic joins with underscores
deriveTopic(description) ==
    CHOOSE topic \in
        { IF words = << >> THEN << Chars("misc") >> ELSE slice(words, 4) :
            words \in { SelectSeq(Split(kept, { " ", "\n", "\t" }),
                                  LAMBDA w : Len(w) > 2 /\ w \notin stopWords) :
                          kept \in { TopicText(description) } } } : TRUE

NoTrail == [ active |-> << >>, superseded |-> << >> ]

loadDecisionEntries(trail) ==
    [ k \in 1..Len(trail.active) |->
        [ timestamp |-> trail.active[k].timestamp,
          topic |-> deriveTopic(trail.active[k].description),
          description |-> trail.active[k].description,
          status |-> "active", superseded_by |-> 0 ] ]
      \o [ k \in 1..Len(trail.superseded) |->
             [ timestamp |-> 0,
               topic |-> deriveTopic(trail.superseded[k].description),
               description |-> trail.superseded[k].description,
               status |-> "superseded", superseded_by |-> trail.superseded[k].superseded_by ] ]

\* a variant that keeps every entry
deduplicateDecisionsKeepAll(entries) ==
    [ k \in 1..Len(entries) |-> entries[k] ]

\* a variant whose key keeps the case
deduplicateDecisionsCaseSensitive(entries) ==
    LET key(i) == slice(entries[i].description, 60)
        kept == { i \in 1..Len(entries) : \A j \in (i + 1)..Len(entries) : key(j) # key(i) }
    IN  [ k \in 1..Cardinality(kept) |->
            entries[CHOOSE i \in kept : Cardinality({ j \in kept : j <= i }) = k] ]

\* the last of the entries with a key stays, in its place
deduplicateDecisions(entries) ==
    LET key(i) == toLowerCase(slice(entries[i].description, 60))
        kept == { i \in 1..Len(entries) : \A j \in (i + 1)..Len(entries) : key(j) # key(i) }
    IN  [ k \in 1..Cardinality(kept) |->
            entries[CHOOSE i \in kept : Cardinality({ j \in kept : j <= i }) = k] ]

\* a variant that leaves the entry of the topic active
RECURSIVE AddDecisionsKeepActive(_, _, _)
AddDecisionsKeepActive(existing, decisions, ts) ==
    IF decisions = << >> THEN existing
    ELSE AddDecisionsKeepActive(
             Append(existing,
                    [ timestamp |-> ts, topic |-> deriveTopic(Head(decisions).description),
                      description |-> Head(decisions).description,
                      status |-> "active", superseded_by |-> 0 ]),
             Tail(decisions), ts)

\* the loop over snapshot.decisions
RECURSIVE AddDecisions(_, _, _)
AddDecisions(existing, decisions, ts) ==
    IF decisions = << >> THEN existing
    ELSE LET topic == deriveTopic(Head(decisions).description)
             same == { k \in 1..Len(existing) :
                         existing[k].topic = topic /\ existing[k].status = "active" }
             existingIdx == CHOOSE k \in same : \A j \in same : k <= j
             marked == IF same = {} THEN existing
                       ELSE [ existing EXCEPT ![existingIdx].status = "superseded",
                                              ![existingIdx].superseded_by = ts ]
         IN  AddDecisions(Append(marked,
                                 [ timestamp |-> ts, topic |-> topic,
                                   description |-> Head(decisions).description,
                                   status |-> "active", superseded_by |-> 0 ]),
                          Tail(decisions), ts)

\* the decisions.md that writeDecisionTrail leaves
writeDecisionTrail(trail, snapshot) ==
    LET existing == deduplicateDecisions(
                        AddDecisions(loadDecisionEntries(trail), snapshot.decisions,
                                     snapshot.timestamp))
        active == SelectSeq(existing, LAMBDA e : e.status = "active")
        superseded == SelectSeq(existing, LAMBDA e : e.status = "superseded")
    IN  [ active |-> [ k \in 1..Len(active) |->
                         [ timestamp |-> active[k].timestamp,
                           description |-> slice(active[k].description, 100) ] ],
          superseded |-> [ k \in 1..Len(superseded) |->
                             [ description |-> slice(superseded[k].description, 80),
                               superseded_by |-> superseded[k].superseded_by ] ] ]

\* the trail so far
Trail == IF fnOut.fn = "writeDecisionTrail" THEN fnOut.trail ELSE NoTrail
Captures == IF fnOut.fn = "writeDecisionTrail" THEN fnOut.step ELSE 0

\* the transcripts of a capture, and what extractDecisions makes of each
TrailTranscripts == UNION { [1..n -> DecisionMessages] : n \in 1..2 }
ExtractedDecisions ==
    { [ entries |-> entries, decisions |-> extractDecisions(entries) ] :
        entries \in TrailTranscripts }

\* a capture: the decisions are extracted from the transcript and written
\* to the trail
CaptureDecisions ==
    /\ Captures < MaxCaptures
    /\ \E extracted \in ExtractedDecisions :
          LET entries == extracted.entries
              decisions == extracted.decisions
              snapshot == [ timestamp |-> Captures + 1, decisions |-> decisions ]
          IN  fnOut' = [ done |-> FALSE, fn |-> "writeDecisionTrail",
                         step |-> Captures + 1,
                         entries |-> entries,
                         decisions |-> decisions,
                         before |-> Trail,
                         trail |-> writeDecisionTrail(Trail, snapshot) ]
    /\ UNCHANGED <<now, config, diskVars, pc, inv, loc, raced, fnIn>>

InitTrail ==
    /\ InitProject
    /\ config = DEFAULTS
    /\ dirExists = FALSE
    /\ fnIn = NoFn

SpecTrail == InitTrail /\ [][CaptureDecisions]_vars

-----------------------------------------------------------------------------
(* Captures of a growing transcript.  The session appends tool invocations  *)
(* to its transcript; captureSnapshot parses the transcript from its first  *)
(* byte and stores what extractFilesChanged finds in it; the stored         *)
(* snapshots are linked into a chain, which mergeSnapshotChain merges.      *)

MaxToolUses == 2

FILE_TOOL_NAMES == { "Write", "Edit", "write", "edit" }

\* tool_use entries: the tool, the file, and the numbers of lines of
\* new_string (or content) and of old_string, 0 for an absent or empty string
FileToolUse(tool, path, newLines, oldLines) ==
    [ type |-> "tool_use", tool_name |-> tool, file_path |-> path,
      linesAdded |-> newLines, linesRemoved |-> oldLines ]

ToolUses ==
    { FileToolUse("Edit", "a.ts", 3, 1), FileToolUse("Write", "a.ts", 2, 0),
      FileToolUse("Edit", "b.ts", 1, 4), FileToolUse("Read", "b.ts", 0, 0) }

\* Math.abs(linesAdded - linesRemoved) + Math.min(linesAdded, linesRemoved)
LinesDelta(entry) ==
    (IF entry.linesAdded >= entry.linesRemoved
     THEN entry.linesAdded - entry.linesRemoved
     ELSE entry.linesRemoved - entry.linesAdded)
        + Min(entry.linesAdded, entry.linesRemoved)

\* the file tools of the transcript, merged path by path in the order of
\* their first use
RECURSIVE extractFilesChanged(_, _)
extractFilesChanged(entries, fileSeq) ==
    IF entries = << >> THEN slice(fileSeq, 20)
    ELSE LET entry == Head(entries)
             f == [ path |-> entry.file_path,
                    operations |-> { IF entry.tool_name \in { "Write", "write" }
                                     THEN "write" ELSE "edit" },
                    lines_changed |-> LinesDelta(entry) ]
         IN  extractFilesChanged(Tail(entries),
                 IF entry.type = "tool_use" /\ entry.tool_name \in FILE_TOOL_NAMES
                 THEN MergeFile(fileSeq, f) ELSE fileSeq)

\* the transcript and the chain so far
Transcript == IF fnOut.fn = "captureSnapshot" THEN fnOut.transcript ELSE << >>
Chain == IF fnOut.fn = "captureSnapshot" THEN fnOut.chain ELSE << >>

\* the session uses a tool
AppendToolUse ==
    /\ Len(Transcript) < MaxToolUses
    /\ \E entry \in ToolUses :
          fnOut' = [ done |-> FALSE, fn |-> "captureSnapshot",
                     transcript |-> Append(Transcript, entry),
                     chain |-> Chain,
                     captured |-> IF fnOut.fn = "captureSnapshot" THEN fnOut.captured ELSE 0 ]
    /\ UNCHANGED <<now, config, diskVars, pc, inv, loc, raced, fnIn>>

\* a capture: the whole transcript is parsed and extracted, and the snapshot
\* is linked to the one before
CaptureFiles ==
    /\ Len(Chain) < MaxChain
    /\ fnOut' = [ done |-> FALSE, fn |-> "captureSnapshot",
                  transcript |-> Transcript,
                  chain |-> Append(Chain,
                                [ NoSnap EXCEPT !.files_changed =
                                      extractFilesChanged(Transcript, << >>) ]),
                  captured |-> Len(Transcript) ]
    /\ UNCHANGED <<now, config, diskVars, pc, inv, loc, raced, fnIn>>

NextChain == AppendToolUse \/ CaptureFiles

SpecChain == InitTrail /\ [][NextChain]_vars

-----------------------------------------------------------------------------
(* threshold/state.ts: the session history over a series of startup and     *)
(* clear events, one a second, in a project whose state already holds some  *)
(* ended sessions.                                                          *)

MaxStarts == 2

\* a state whose history holds n ended sessions, the last one ended most
\* recently, and whose session is `sessionId`
StateWithHistory(n, sessionId) ==
    [ defaultState EXCEPT
        !.session_id = sessionId,
        !.compaction_count = 1,
        !.current_threshold = DEFAULTS.thresholds[2],
        !.last_event_time = StartTime + n * 1000,
        !.session_history =
            [ k \in 1..n |-> [ session_id |-> GenSession(StartTime + (n - k) * 1000),
                               started |-> StartTime + (n - k) * 1000,
                               ended |-> StartTime + (n - k + 1) * 1000,
                               compaction_count |-> 0 ] ] ]

HistorySizes == { 0, 1, 2, MAX_SESSION_HISTORY - 1, MAX_SESSION_HISTORY }

\* the state so far and the number of session starts
SessionState == IF fnOut.fn = "resetForNewSession" THEN fnOut.state ELSE fnIn.state
Starts == IF fnOut.fn = "resetForNewSession" THEN fnOut.starts ELSE 0

\* a startup or clear event: handleSessionTransition and the state it saves
StartSession ==
    /\ Starts < MaxStarts
    /\ \E source \in { "startup", "clear" }, sid \in SessionInputs :
          LET t == StartTime + (fnIn.size + Starts + 1) * 1000
              options == [ NoInv EXCEPT !.kind = "restore", !.source = source,
                                        !.sessionId = sid ]
          IN  fnOut' = [ done |-> FALSE, fn |-> "resetForNewSession",
                         starts |-> Starts + 1,
                         source |-> source,
                         t |-> t,
                         before |-> SessionState,
                         state |-> handleSessionTransition(SessionState, options,
                                                           config.thresholds, t) ]
    /\ UNCHANGED <<now, config, diskVars, pc, inv, loc, raced, fnIn>>

InitHistory ==
    /\ InitProject
    /\ config = DEFAULTS
    /\ dirExists = TRUE
    /\ fnIn \in { [ size |-> n, state |-> StateWithHistory(n, sid) ] :
                    n \in HistorySizes, sid \in SessionInputs }

SpecHistory == InitHistory /\ [][StartSession]_vars

-----------------------------------------------------------------------------
(* snapshot/storage.ts: the catalog over a series of storeSnapshot calls,   *)
(* one a second, in a project whose catalog already lists some snapshots.   *)

MaxStores == 2

\* the catalog after n captures, one a second, the first at StartTime
RECURSIVE CatalogAfter(_)
CatalogAfter(n) ==
    IF n = 0 THEN EmptyIndex
    ELSE LET t == StartTime + (n - 1) * 1000
         IN  updateIndex(CatalogAfter(n - 1),
                         [ NoSnap EXCEPT !.snapshot_id = generateSnapshotId(t),
                                         !.timestamp = t ])

CatalogSizes == { 0, 1, MaxActiveIndex - 2, MaxActiveIndex - 1, MaxActiveIndex }

\* the catalog so far and the number of snapshots stored
Catalog == IF fnOut.fn = "storeSnapshot" THEN fnOut.index ELSE fnIn.index
Stored == IF fnOut.fn = "storeSnapshot" THEN fnOut.stored ELSE 0

\* storeSnapshot: the snapshot file is written and updateIndex puts its
\* entry into the catalog
StoreSnapshot ==
    /\ Stored < MaxStores
    /\ \E trigger \in Triggers :
          LET t == StartTime + (fnIn.size + Stored) * 1000
              snapshot == [ NoSnap EXCEPT !.snapshot_id = generateSnapshotId(t),
                                          !.timestamp = t,
                                          !.trigger = trigger ]
          IN  fnOut' = [ done |-> FALSE, fn |-> "storeSnapshot",
                         stored |-> Stored + 1,
                         snapshot |-> snapshot,
                         before |-> Catalog,
                         index |-> updateIndex(Catalog, snapshot) ]
    /\ UNCHANGED <<now, config, diskVars, pc, inv, loc, raced, fnIn>>

InitIndex ==
    /\ now = StartTime
    /\ config \in { DEFAULTS, ProjectCapsConfig }
    /\ dirExists = FALSE
    /\ statePresent = FALSE
    /\ stateFile = defaultState
    /\ snapFiles = << >>
    /\ index = EmptyIndex
    /\ latestMd = << >>
    /\ contextMd = << >>
    /\ pc = [p \in Procs |-> "idle"]
    /\ inv = [p \in Procs |-> NoInv]
    /\ loc = [p \in Procs |-> IdleLoc]
    /\ raced = [p \in Procs |-> FALSE]
    /\ fnOut = NoFnOut
    /\ fnIn \in { [ size |-> n, index |-> CatalogAfter(n) ] : n \in CatalogSizes }

SpecIndex == InitIndex /\ [][StoreSnapshot]_vars

-----------------------------------------------------------------------------
(* Captures of a growing transcript in a project whose config.json may set  *)
(* the cap sizes: loadConfig returns the project's values, and the capture  *)
(* extracts the files of the transcript as before.                          *)

InitCaps ==
    /\ now = StartTime
    /\ config \in { DEFAULTS, ProjectCapsConfig }
    /\ dirExists = FALSE
    /\ statePresent = FALSE
    /\ stateFile = defaultState
    /\ snapFiles = << >>
    /\ index = EmptyIndex
    /\ latestMd = << >>
    /\ contextMd = << >>
    /\ pc = [p \in Procs |-> "idle"]
    /\ inv = [p \in Procs |-> NoInv]
    /\ loc = [p \in Procs |-> IdleLoc]
    /\ raced = [p \in Procs |-> FALSE]
    /\ fnOut = NoFnOut
    /\ fnIn = NoFn

SpecCaps == InitCaps /\ [][NextChain]_vars

-----------------------------------------------------------------------------
(* Captures and session starts in a project whose state.json is absent, is  *)
(* not JSON, or holds the state of an earlier session.  fnIn records which. *)

StateFiles == { "absent", "unparseable", "saved" }

SavedState ==
    [ defaultState EXCEPT !.session_id = HookSession(1), !.compaction_count = 1,
                          !.current_threshold = 30, !.last_snapshot_time = StartTime,
                          !.last_event_time = StartTime ]

InitStateFile ==
    /\ now = StartTime
    /\ config = DEFAULTS
    /\ dirExists = TRUE
    /\ fnIn \in { [ file |-> f ] : f \in StateFiles }
    /\ statePresent = (fnIn.file # "absent")
    /\ stateFile = CASE fnIn.file = "absent" -> defaultState
                     [] fnIn.file = "unparseable" -> UnparseableState
                     [] OTHER -> SavedState
    /\ snapFiles = << >>
    /\ index = EmptyIndex
    /\ latestMd = << >>
    /\ contextMd = << >>
    /\ pc = [p \in Procs |-> "idle"]
    /\ inv = [p \in Procs |-> NoInv]
    /\ loc = [p \in Procs |-> IdleLoc]
    /\ raced = [p \in Procs |-> FALSE]
    /\ fnOut = NoFnOut

NextStateFile ==
    \/ \E p \in Procs : BeginSnapshot(p, FALSE, {"pre_compact"}, {EmptyExtraction})
    \/ \E p \in Procs : BeginRestore(p, FALSE, {"compact", "startup"}, {HookSession(1)})
    \/ \E p \in Procs : CaptureSteps(p)
    \/ \E p \in Procs : RestoreSteps(p)
    \/ \E p \in Procs : Finish(p)
    \/ Tick

SpecStateFile == InitStateFile /\ [][NextStateFile]_vars

-----------------------------------------------------------------------------
(* Properties *)

\* C1: the snapshot identifiers that captureSnapshot produces are pairwise
\* distinct, also when two captures fall in the same wall-clock second: no
\* two entries of the catalog carry the same identifier.
C1_DistinctIds ==
    \A i, j \in DOMAIN index.snapshots :
        i # j => index.snapshots[i].id # index.snapshots[j].id

\* C2: a snapshot file is written once: no step changes the content of a
\* snapshot file that exists, or removes it.
C2_WrittenOnce ==
    [][ \A id \in DOMAIN snapFiles :
            id \in DOMAIN snapFiles' /\ snapFiles'[id] = snapFiles[id] ]_vars

\* C3: when a check that captured a snapshot has completed, state.json holds
\* the time of that capture as last_snapshot_time, and the time evaluator
\* does not fire on it right away.
C3_CaptureTimePersisted ==
    \A p \in Procs :
        (inv[p].kind = "check" /\ pc[p] = "done" /\ loc[p].captures > 0)
            => /\ stateFile.last_snapshot_time = loc[p].capTime
               /\ ~checkTimeInterval(stateFile, now).shouldSnapshot

\* the compaction count the next invocation would load
PersistedCount == loadState.compaction_count

\* C4 as stated: within a session no step makes the persisted
\* compaction_count smaller, whatever the interleaving of overlapping
\* capture, check and restore invocations.
C4_CountNeverDecreases ==
    [][ PersistedCount' >= PersistedCount ]_vars

\* C4, amended: within a session the persisted compaction_count becomes
\* smaller only by the write of an invocation that loaded state.json before
\* another invocation rewrote it (last writer wins); the write of an
\* invocation that was not overtaken never makes it smaller.
C4_CountDecreasesOnlyByStaleWrite ==
    [][ PersistedCount' < PersistedCount
            => \E p \in Procs : pc'[p] # pc[p] /\ raced[p] ]_vars

\* a compact transition that was not overtaken has raised the count while
\* another invocation is in flight
C4_Witness ==
    \E p, q \in Procs :
        /\ p # q
        /\ inv[p].kind = "restore" /\ inv[p].source = "compact" /\ pc[p] = "rst_read"
        /\ ~raced[p]
        /\ statePresent /\ stateFile.compaction_count = loc[p].state.compaction_count + 1
        /\ pc[q] \notin {"idle", "done"}

\* C5: with the default levels getThreshold returns 20, 30, 40, 50, 50 percent
\* for the counts 0..4, and for a count beyond the list the value of the
\* clamped index.
C5_DefaultThresholds ==
    (fnOut.done /\ fnOut.fn = "getThreshold" /\ fnIn.cfg = DEFAULTS)
        => /\ fnIn.count <= 4 => fnOut.threshold = <<20, 30, 40, 50, 50>>[fnIn.count + 1]
           /\ fnIn.count > 4 =>
                fnOut.threshold = getThreshold(Len(DEFAULTS.thresholds) - 1, DEFAULTS)

\* C6: the persisted current_threshold is always one of the configured
\* levels, a compact transition never lowers it, and a startup or clear
\* transition sets it to the first level.
C6_ThresholdLevels ==
    [][ /\ statePresent' =>
             \E i \in DOMAIN config.thresholds :
                 stateFile'.current_threshold = config.thresholds[i]
        /\ \A p \in Procs :
             (pc[p] = "rst_save" /\ pc'[p] = "rst_read" /\ dirExists) =>
                 /\ inv[p].source = "compact" =>
                        stateFile'.current_threshold >= loadState.current_threshold
                 /\ inv[p].source \in {"startup", "clear"} =>
                        stateFile'.current_threshold = config.thresholds[1] ]_vars

\* C7: checkTimeInterval does not fire when last_snapshot_time is 0, whatever
\* the time is, and fires when last_snapshot_time is 21 minutes before the
\* time and the interval is 20 minutes.
C7_TimeEvaluator ==
    (fnOut.done /\ fnOut.fn = "checkTimeInterval")
        => /\ fnIn.last_snapshot_time = 0 => ~fnOut.fires
           /\ (fnIn.last_snapshot_time = fnIn.t - LongGapMs /\ fnIn.interval = 20)
                => fnOut.fires

C7_Witness ==
    /\ fnOut.done /\ fnOut.fn = "checkTimeInterval"
    /\ fnIn.last_snapshot_time = fnIn.t - LongGapMs /\ fnIn.interval = 20
    /\ fnOut.fires

\* C8: a zero last_snapshot_time holds the time trigger back on the first
\* check only: a check with a transcript that runs an interval or more after
\* the previous check, with no snapshot captured during that interval,
\* captures a time-interval snapshot.
C8_TimeTriggerAfterFirstCheck ==
    \A p \in Procs :
        LET intervalMs == loc[p].state.snapshot_interval_minutes * 60 * 1000
        IN  ( /\ inv[p].kind = "check" /\ pc[p] \notin {"idle", "chk_load"}
              /\ inv[p].hasTranscript
              /\ loc[p].state.last_event_time > 0
              /\ loc[p].evalTime - loc[p].state.last_event_time >= intervalMs
              /\ \A i \in DOMAIN index.snapshots :
                     \/ loc[p].evalTime - index.snapshots[i].timestamp >= intervalMs
                     \/ index.snapshots[i].timestamp >= loc[p].evalTime )
            => loc[p].calls > 0

\* C9: one check invocation calls captureSnapshot at most once.
C9_AtMostOneCapture ==
    \A p \in Procs : inv[p].kind = "check" => loc[p].captures <= 1

\* a check for which both evaluators would fire has completed with one capture
C9_Witness ==
    \E p \in Procs :
        /\ inv[p].kind = "check" /\ pc[p] = "done" /\ inv[p].hasTranscript
        /\ loc[p].timeFired
        /\ shouldSnapshotByThreshold(inv[p].remainingPct, loc[p].state.compaction_count, config)
        /\ loc[p].captures = 1

\* a restore that returned a briefing while the snapshot chain is longer than 1
RestoredWithChain(p) ==
    /\ inv[p].kind = "restore" /\ pc[p] = "done"
    /\ loc[p].out.kind \notin {"empty", "first_run"}
    /\ Len(loadSnapshotChain(index, snapFiles)) > 1

\* C10 as stated: a restore that returns a briefing while the chain is longer
\* than 1 returns the chain-merged briefing.
C10_AlwaysChainMerged ==
    \A p \in Procs : RestoredWithChain(p) => loc[p].out.kind = "chain"

\* C10, amended: with a chain longer than 1 the briefing is the chain-merged
\* one when the default format is asked for and no readable CONTEXT.md
\* exists; otherwise it is made of a single record: the trailhead CONTEXT.md,
\* or for the json and markdown formats the latest snapshot or LATEST.md.
C10_ChainMergedUnlessTrailhead ==
    \A p \in Procs :
        RestoredWithChain(p) =>
            LET chain == loadSnapshotChain(index, snapFiles)
            IN  IF /\ inv[p].format = "system_message"
                   /\ readContextMd(contextMd, inv[p].contextReadable) = << >>
                THEN /\ loc[p].out.kind = "chain"
                     /\ loc[p].out.chainLength = Len(chain)
                     /\ loc[p].out.intent = mergeSnapshotChain(chain).intent
                ELSE /\ loc[p].out.kind \in {"json", "markdown", "trailhead"}
                     /\ loc[p].out.chainLength = 1

\* the merged briefing carries an intent that the latest snapshot lacks
C10_Witness ==
    \E p \in Procs :
        /\ RestoredWithChain(p)
        /\ loc[p].out.kind = "chain"
        /\ loc[p].out.intent = "X"
        /\ loadLatestSnapshot(index, snapFiles).intent = "Unknown"

\* mergeSnapshotChain has been applied to fnIn.chain
Merged == fnOut.done /\ fnOut.fn = "mergeSnapshotChain"

\* `value` is the value of `field` in the newest snapshot of the chain that
\* does not carry the sentinel, or the sentinel when all carry it
IsNewestNonSentinel(chain, field, sentinel, value) ==
    \/ /\ \A i \in DOMAIN chain : chain[i][field] = sentinel
       /\ value = sentinel
    \/ \E i \in DOMAIN chain :
          /\ chain[i][field] # sentinel
          /\ \A j \in DOMAIN chain : j > i => chain[j][field] = sentinel
          /\ value = chain[i][field]

\* C11: the merged intent, progress and sentiment are, each on its own, the
\* value of the newest snapshot that does not carry the sentinel ("Unknown",
\* "Unknown", "neutral"), and the sentinel when every snapshot carries it.
C11_NewestNonSentinel ==
    Merged =>
        /\ IsNewestNonSentinel(fnIn.chain, "intent", "Unknown", fnOut.merged.intent)
        /\ IsNewestNonSentinel(fnIn.chain, "progress", "Unknown", fnOut.merged.progress)
        /\ IsNewestNonSentinel(fnIn.chain, "user_sentiment", "neutral", fnOut.merged.sentiment)

\* [A(intent X, progress Unknown), B(intent Unknown, progress half)] merged
C11_Witness ==
    /\ Merged
    /\ Len(fnIn.chain) = 2
    /\ fnIn.chain[1].intent = "X" /\ fnIn.chain[2].intent = "Unknown"
    /\ fnIn.chain[1].progress = "Unknown" /\ fnIn.chain[2].progress = "half"
    /\ fnOut.merged.intent = "X" /\ fnOut.merged.progress = "half"

\* C12: the merged open items are the open items of the newest snapshot of
\* the chain; an item that only an older snapshot lists is not among them.
C12_OpenItemsOfNewest ==
    Merged =>
        LET chain == fnIn.chain
            newest == chain[Len(chain)].open_items
            out == fnOut.merged.openItems
        IN  /\ out = newest
            /\ \A i \in DOMAIN chain : \A k \in DOMAIN chain[i].open_items :
                 (\A n \in DOMAIN newest : newest[n] # chain[i].open_items[k])
                     => \A m \in DOMAIN out : out[m] # chain[i].open_items[k]

\* [A(open a, b), B(open c)] merged to [c]
C12_Witness ==
    /\ Merged
    /\ Len(fnIn.chain) = 2
    /\ fnIn.chain[1].open_items = <<"a", "b">>
    /\ fnIn.chain[2].open_items = <<"c">>
    /\ fnOut.merged.openItems = <<"c">>

\* the lines_changed of the entries of `fileSeq` that name `path`, summed
RECURSIVE LinesOf(_, _)
LinesOf(fileSeq, path) ==
    IF fileSeq = << >> THEN 0
    ELSE (IF Head(fileSeq).path = path THEN Head(fileSeq).lines_changed ELSE 0)
         + LinesOf(Tail(fileSeq), path)

\* C13: the merged files hold one entry per path that occurs in the chain;
\* its operations are the union and its lines_changed the sum over all the
\* entries of that path in the chain.
C13_FilesUnionAndSum ==
    Merged =>
        LET all == Flatten(fnIn.chain, "files_changed")
            files == fnOut.merged.files
        IN  /\ \A i, j \in DOMAIN files : i # j => files[i].path # files[j].path
            /\ { files[i].path : i \in DOMAIN files } = { all[k].path : k \in DOMAIN all }
            /\ \A i \in DOMAIN files :
                 /\ files[i].operations =
                        UNION { all[k].operations :
                                  k \in { n \in DOMAIN all : all[n].path = files[i].path } }
                 /\ files[i].lines_changed = LinesOf(all, files[i].path)

\* a.ts edited (3 lines) in one snapshot and written (5 lines) in a later one
C13_Witness ==
    /\ Merged
    /\ \E i, j \in DOMAIN fnIn.chain :
          /\ i < j
          /\ fnIn.chain[i].files_changed = <<FileA1>>
          /\ fnIn.chain[j].files_changed = <<FileB, FileA2>>
    /\ \E n \in DOMAIN fnOut.merged.files :
          /\ fnOut.merged.files[n].path = "a.ts"
          /\ fnOut.merged.files[n].lines_changed >= 8
          /\ fnOut.merged.files[n].operations = {"edit", "write"}

\* the positions, in the decisions of the chain taken oldest snapshot first,
\* of the first occurrence of each case-folded prefix
FirstOccurrences(all) ==
    { k \in DOMAIN all : \A j \in DOMAIN all : j < k => all[j].prefix # all[k].prefix }

\* C14: the merged decisions are the decisions of the chain, oldest snapshot
\* first, reduced to the first occurrence of each case-folded prefix, in that
\* order, cut after 6 entries.
C14_DecisionsFirstOccurrence ==
    Merged =>
        LET all == Flatten(fnIn.chain, "decisions")
            kept == FirstOccurrences(all)
            out == fnOut.merged.decisions
        IN  /\ Len(out) = Min(Cardinality(kept), 6)
            /\ \A n \in DOMAIN out :
                 \E k \in kept :
                    /\ Cardinality({ j \in kept : j <= k }) = n
                    /\ out[n] = all[k]

\* seven distinct prefixes and a repetition in another case, cut to six
C14_Witness ==
    /\ Merged
    /\ LET all == Flatten(fnIn.chain, "decisions")
       IN  /\ Cardinality(FirstOccurrences(all)) > 6
           /\ \E j, k \in DOMAIN all :
                 j < k /\ all[j].prefix = all[k].prefix /\ all[j].upper # all[k].upper
    /\ Len(fnOut.merged.decisions) = 6

\* a restore with restoration enabled and a source other than resume has returned
Restored(p) ==
    /\ inv[p].kind = "restore" /\ pc[p] = "done"
    /\ config.restoreOnSessionStart
    /\ inv[p].source # "resume"

\* C15 as stated: such a restore returns the first-run notice, the
\* chain-merged briefing, the single-snapshot briefing or the raw fallback;
\* the first-run notice exactly when no snapshot exists.
C15_OneOfFourPayloads ==
    \A p \in Procs :
        Restored(p) =>
            /\ loc[p].out.kind \in {"first_run", "chain", "single", "fallback"}
            /\ loc[p].out.kind = "first_run" <=> getSnapshotCount(snapFiles) = 0

\* C15, amended: such a restore returns the first-run notice exactly when no
\* snapshot file exists, and nothing exactly when snapshots exist but no
\* LATEST.md does (no captured snapshot had content or was manual);
\* otherwise it returns the latest snapshot as JSON, LATEST.md, or in the
\* default format the trailhead, the chain-merged briefing, the
\* single-snapshot briefing or the raw fallback.
C15_PayloadKinds ==
    \A p \in Procs :
        Restored(p) =>
            /\ loc[p].out.kind = "first_run" <=> getSnapshotCount(snapFiles) = 0
            /\ loc[p].out.kind = "empty" <=>
                   (getSnapshotCount(snapFiles) > 0 /\ latestMd = << >>)
            /\ (getSnapshotCount(snapFiles) > 0 /\ latestMd # << >>) =>
                   CASE inv[p].format = "json" -> loc[p].out.kind = "json"
                     [] inv[p].format = "markdown" -> loc[p].out.kind = "markdown"
                     [] OTHER ->
                          loc[p].out.kind \in {"trailhead", "chain", "single", "fallback"}

\* a restore that returned nothing although a snapshot has been captured
C15_Witness ==
    \E p \in Procs :
        /\ Restored(p)
        /\ getSnapshotCount(snapFiles) > 0
        /\ loc[p].out = EmptyPayload

\* invocation p performs its session transition and saves the state
Transition(p, source) ==
    /\ pc[p] = "rst_save" /\ pc'[p] = "rst_read"
    /\ dirExists
    /\ inv[p].source = source

\* C16: a compact transition for which the hook supplies no session id
\* leaves the persisted session_id as it was.
C16_CompactKeepsSessionId ==
    [][ \A p \in Procs :
            (Transition(p, "compact") /\ inv[p].sessionId = NoSession)
                => stateFile'.session_id = loadState.session_id ]_vars

\* C17: a resume transition changes nothing but bookkeeping timestamps:
\* compaction_count, current_threshold, last_snapshot_time and
\* session_history stay, and so does session_id when the hook supplies none.
C17_ResumeKeepsState ==
    [][ \A p \in Procs :
            Transition(p, "resume")
                => /\ stateFile'.compaction_count = loadState.compaction_count
                   /\ stateFile'.current_threshold = loadState.current_threshold
                   /\ stateFile'.last_snapshot_time = loadState.last_snapshot_time
                   /\ stateFile'.session_history = loadState.session_history
                   /\ inv[p].sessionId = NoSession
                        => stateFile'.session_id = loadState.session_id ]_vars

\* C18: the interval that the time evaluator compares the elapsed time
\* against is the configured interval: BOOKMARK_INTERVAL if it is set to a
\* number, else intervalMinutes of the project's config file, else 20.
C18_ConfiguredInterval ==
    (fnOut.done /\ fnOut.fn = "check") => fnOut.compared = fnOut.configured

\* C19: loadSnapshot returns null, raises nothing and reads no file outside
\* the snapshots directory for every identifier that is not of the form
\* SNAP_<8 digits>_<6 digits>, path-traversal-shaped ones included, and for
\* every identifier of that form that has no stored file.
C19_NotFound ==
    (fnOut.done /\ fnOut.fn = "loadSnapshot")
        => /\ ~fnOut.result.raised
           /\ \A path \in fnOut.result.read :
                /\ Len(path) > Len(getSnapshotsDir)
                /\ SubSeq(path, 1, Len(getSnapshotsDir)) = getSnapshotsDir
           /\ fnIn.id.shape # "well-formed" => fnOut.result = NotFound
           /\ (fnIn.id.shape = "well-formed"
                 /\ join(getSnapshotsDir, fnIn.id.text \o Chars(".json")) \notin DOMAIN fnIn.disk)
                => fnOut.result = NotFound

\* a traversal-shaped identifier that names an existing file outside the
\* snapshots directory was looked up and not found
C19_Witness ==
    /\ fnOut.done /\ fnOut.fn = "loadSnapshot"
    /\ fnIn.id.text = Chars("..") \o Chars("/") \o Chars("state")
    /\ join(<<Chars("bookmarks")>>, Chars("state") \o Chars(".json")) \in DOMAIN fnIn.disk
    /\ fnOut.result = NotFound

\* the user entries with text in the last 30% of the entries whose text
\* matches a pattern of the given polarity
WindowHits(entries, polarity) ==
    Cardinality({ i \in ((Len(entries) * 7) \div 10 + 1)..Len(entries) :
                    /\ entries[i].type = "user" /\ entries[i].text
                    /\ entries[i][polarity] })

\* C20: the sentiment is positive only when the window has at least 2 more
\* positive hits than negative ones, negative only when it has at least 2
\* more negative hits than positive ones, and neutral otherwise.
C20_TwoNetHits ==
    (fnOut.done /\ fnOut.fn = "extractUserSentiment")
        => LET net == WindowHits(fnIn.entries, "positive") - WindowHits(fnIn.entries, "negative")
           IN  /\ fnOut.sentiment = "positive" <=> net >= 2
               /\ fnOut.sentiment = "negative" <=> net <= -2

Extracted == fnOut.done /\ fnOut.fn = "extractFromEntries"

\* "approach A" stands in the text
MentionsApproachA(text) ==
    \E i \in 1..Len(text) : Occurs(text, Chars("approach A"), i)

\* C21: for the transcript of the single user message "let's use approach A
\* because it's simpler, not approach B", extraction returns exactly one
\* decision, which contains "approach A", and no open items.
C21_ScenarioOneDecision ==
    (Extracted /\ fnIn.entries = << [ type |-> "user", content |-> ScenarioText ] >>)
        => /\ Len(fnOut.decisions) = 1
           /\ MentionsApproachA(fnOut.decisions[1].description)
           /\ fnOut.open_items = << >>

\* C21 as the code has it: that transcript yields no decision, as does every
\* transcript of user messages only, and no open items.
C21_ScenarioNoDecision ==
    Extracted
        => /\ (\A i \in 1..Len(fnIn.entries) : fnIn.entries[i].type = "user")
                => fnOut.decisions = << >>
           /\ fnIn.entries = << [ type |-> "user", content |-> ScenarioText ] >>
                => fnOut.open_items = << >>

C21_Witness ==
    /\ Extracted
    /\ fnIn.entries = << [ type |-> "user", content |-> ScenarioText ] >>
    /\ fnOut.decisions = << >>

\* the tokens that the transcript of fnIn is estimated to hold
EstimatedUsage ==
    IF fnOut.fn = "quickEstimate"
    THEN Ceil(fnIn.size * 7, 10 * fnIn.charsPerToken)
    ELSE Ceil(fnIn.chars.user + fnIn.chars.assistant + fnIn.chars.tool + fnIn.chars.system,
              fnIn.charsPerToken)

\* C22: both estimateFromTranscript and quickEstimate return a remaining
\* fraction between 0 and 1: 0 when the estimated usage exceeds the
\* capacity, and 1 with zero usage when there is no transcript.
C22_RemainingFraction ==
    (fnOut.done /\ fnOut.fn \in { "estimateFromTranscript", "quickEstimate" })
        => /\ fnOut.remaining >= 0 /\ fnOut.remaining <= 100
           /\ (fnIn.exists /\ ~(fnOut.fn = "quickEstimate" /\ fnIn.statFails)
                 /\ EstimatedUsage > fnIn.contextLimit)
                => fnOut.remaining = 0
           /\ ~fnIn.exists => (fnOut.remaining = 100 /\ fnOut.tokens = 0)

\* a transcript that is estimated to hold more than the capacity
C22_Witness ==
    /\ fnOut.done /\ fnOut.fn = "estimateFromTranscript"
    /\ fnIn.exists
    /\ EstimatedUsage > fnIn.contextLimit
    /\ fnOut.remaining = 0

Parsed == fnOut.done /\ fnOut.fn = "parseTranscript"

\* the name of the tool_use block of the record that has the identifier, or
\* undefined
InvocationName(raw, id) ==
    IF \E k \in 1..Len(raw.blocks) : raw.blocks[k].type = "tool_use" /\ raw.blocks[k].id = id
    THEN raw.blocks[CHOOSE k \in 1..Len(raw.blocks) :
                        raw.blocks[k].type = "tool_use" /\ raw.blocks[k].id = id].name
    ELSE Undefined

\* C23: the tool_name of a tool_result entry is the name of the tool_use
\* block of the same record that has the identifier of the result, and
\* undefined when the record has no such block.
C23_ToolNameResolved ==
    (Parsed /\ Len(fnIn.lines) = 1)
        => LET raw == fnIn.lines[1]
               results == SelectSeq(raw.blocks, LAMBDA b : b.type = "tool_result")
               entries == SelectSeq(fnOut.full.entries, LAMBDA e : e.type = "tool_result")
           IN  /\ Len(entries) = IF raw.json = "record" THEN Len(results) ELSE 0
               /\ \A k \in 1..Len(entries) :
                    entries[k].tool_name = InvocationName(raw, results[k].id)

\* the entries of the lines that are not malformed, in file order
RECURSIVE WellFormedEntries(_)
WellFormedEntries(lines) ==
    IF lines = << >> THEN << >>
    ELSE (IF Head(lines).json = "malformed" THEN << >> ELSE LineEntries(Head(lines)))
             \o WellFormedEntries(Tail(lines))

\* C24: parseTranscript raises for no file content; a malformed line
\* contributes no entry and the entries of the other lines are emitted in
\* file order, as if the malformed lines were not in the file.
C24_MalformedSkipped ==
    Parsed
        => /\ ~fnOut.full.raised
           /\ fnOut.full.entries = WellFormedEntries(fnIn.lines)
           /\ fnOut.full.entries =
                 parseTranscript(FileOf(SelectSeq(fnIn.lines, LAMBDA l : l.json # "malformed")), 0).entries

\* a malformed line stands before a line that yields entries
C24_Witness ==
    /\ Parsed
    /\ Len(fnIn.lines) = 2
    /\ fnIn.lines[1].json = "malformed"
    /\ LineEntries(fnIn.lines[2]) # << >>
    /\ fnOut.full.entries = LineEntries(fnIn.lines[2])

\* C25: a parse from an offset equal to the file length yields no entries,
\* and the entries of an earlier parse followed by those of a later parse
\* from the bytesRead of the earlier one are the entries of one parse of the
\* whole file, also when the file ended in a partly written line at the time
\* of the earlier parse.
C25_ResumeFromOffset ==
    Parsed
        => /\ fnOut.atEnd.entries = << >>
           /\ fnOut.earlier.entries \o fnOut.later.entries = fnOut.full.entries

\* the first 60 characters, case-folded
Key60(description) == toLowerCase(slice(description, 60))

\* no two of the descriptions have the same first 60 characters
DistinctKeys(descriptions) ==
    \A i \in 1..Len(descriptions) : \A j \in 1..Len(descriptions) :
        i # j => Key60(descriptions[i]) # Key60(descriptions[j])

\* the descriptions of the entries of decisions.md
TrailDescriptions(trail) ==
    [ k \in 1..Len(trail.active) |-> trail.active[k].description ]
        \o [ k \in 1..Len(trail.superseded) |-> trail.superseded[k].description ]

\* C26: two decisions whose first 60 characters match when case-folded are
\* one entry in the output of extractDecisions and one entry in the
\* decision trail.
C26_DecisionsCollapse ==
    fnOut.fn = "writeDecisionTrail"
        => /\ DistinctKeys([ k \in 1..Len(fnOut.decisions) |-> fnOut.decisions[k].description ])
           /\ DistinctKeys(TrailDescriptions(fnOut.trail))

\* two messages whose decisions differ in case and after the 60th character
\* were captured together, and a decision came that matches one in the trail
C26_Witness ==
    /\ fnOut.fn = "writeDecisionTrail"
    /\ Len(fnOut.entries) = 2
    /\ fnOut.entries[1].content # fnOut.entries[2].content
    /\ Key60(fnOut.entries[1].content) = Key60(fnOut.entries[2].content)
    /\ Len(fnOut.decisions) = 1
    /\ \E k \in 1..Len(fnOut.before.active) :
          /\ Key60(fnOut.before.active[k].description) = Key60(fnOut.decisions[1].description)
          /\ fnOut.before.active[k].description # slice(fnOut.decisions[1].description, 100)
    /\ Len(TrailDescriptions(fnOut.trail)) = 1

\* C27: in every persisted TriggerState current_threshold is
\* getThreshold(compaction_count, config), the level the threshold evaluator
\* compares the remaining fraction with.
C27_ThresholdOfCount ==
    statePresent =>
        stateFile.current_threshold = getThreshold(stateFile.compaction_count, config)

\* C28: session-start events that come one after another leave in the
\* persisted state the number of compact events since the last startup or
\* clear: a startup or clear stores 0, a compact stores the stored count
\* plus one, a resume stores the stored count, and no other step changes it.
C28_CompactionsSinceStart ==
    [][ /\ \A p \in Procs :
             (pc[p] = "rst_save" /\ pc'[p] = "rst_read" /\ dirExists) =>
                 /\ statePresent'
                 /\ inv[p].source \in {"startup", "clear"} =>
                        stateFile'.compaction_count = 0
                 /\ inv[p].source = "compact" =>
                        stateFile'.compaction_count = loadState.compaction_count + 1
                 /\ inv[p].source = "resume" =>
                        stateFile'.compaction_count = loadState.compaction_count
        /\ (\A p \in Procs : ~(pc[p] = "rst_save" /\ pc'[p] = "rst_read")) =>
                 (statePresent' => stateFile'.compaction_count = loadState.compaction_count)
      ]_vars

\* two compact events were counted and the startup that followed archived
\* the session with that count and stored 0
C28_Witness ==
    /\ statePresent
    /\ stateFile.compaction_count = 0
    /\ Len(stateFile.session_history) = 1
    /\ stateFile.session_history[1].compaction_count = 2
    /\ \E p \in Procs : pc[p] = "rst_read" /\ inv[p].source \in {"startup", "clear"}

\* the sum of the line deltas of the file-tool invocations on a path
RECURSIVE SumDeltas(_, _)
SumDeltas(entries, path) ==
    IF entries = << >> THEN 0
    ELSE (IF Head(entries).file_path = path /\ Head(entries).tool_name \in FILE_TOOL_NAMES
          THEN LinesDelta(Head(entries)) ELSE 0)
            + SumDeltas(Tail(entries), path)

\* C29: the snapshots of a chain cover slices of the transcript that do not
\* overlap: the chain-merged lines_changed of a path is the sum of the line
\* deltas of the edits of that path in the captured transcript.
C29_ChainCountsEditsOnce ==
    (fnOut.fn = "captureSnapshot" /\ fnOut.chain # << >>)
        => \A path \in { "a.ts", "b.ts" } :
              LinesOf(mergeSnapshotChain(fnOut.chain).files, path)
                  = SumDeltas(SubSeq(fnOut.transcript, 1, fnOut.captured), path)

\* the trail has one active entry per topic
OneActivePerTopic(trail) ==
    \A i \in 1..Len(trail.active) : \A j \in 1..Len(trail.active) :
        i # j => deriveTopic(trail.active[i].description)
                    # deriveTopic(trail.active[j].description)

\* the last decision of the capture with the topic is the active entry of
\* the topic, stamped with the capture
NewestIsActive(topic) ==
    LET ofTopic == { k \in 1..Len(fnOut.decisions) :
                       deriveTopic(fnOut.decisions[k].description) = topic }
        last == CHOOSE k \in ofTopic : \A j \in ofTopic : j <= k
    IN  \E i \in 1..Len(fnOut.trail.active) :
            /\ fnOut.trail.active[i].description
                  = slice(fnOut.decisions[last].description, 100)
            /\ fnOut.trail.active[i].timestamp = fnOut.step

\* the entry is among the superseded ones, with the capture's timestamp
SupersededNow(e) ==
    \E i \in 1..Len(fnOut.trail.superseded) :
        /\ fnOut.trail.superseded[i].description = slice(e.description, 80)
        /\ fnOut.trail.superseded[i].superseded_by = fnOut.step

\* the active entries of the trail before the capture whose topic a decision
\* of the capture has
Overridden ==
    { k \in 1..Len(fnOut.before.active) :
        \E d \in 1..Len(fnOut.decisions) :
            deriveTopic(fnOut.decisions[d].description)
                = deriveTopic(fnOut.before.active[k].description) }

\* a decision of the capture repeats the entry: same first 60 characters,
\* case-folded
Repeated(e) ==
    \E d \in 1..Len(fnOut.decisions) :
        Key60(fnOut.decisions[d].description) = Key60(e.description)

\* C30 as stated: the trail has one active entry per topic, and every active
\* entry whose topic a new decision has becomes superseded, with the
\* timestamp of the capture, while the new decision is the active entry of
\* the topic.
C30_SupersededByTopic ==
    fnOut.fn = "writeDecisionTrail"
        => /\ OneActivePerTopic(fnOut.trail)
           /\ \A k \in Overridden :
                 /\ NewestIsActive(deriveTopic(fnOut.before.active[k].description))
                 /\ SupersededNow(fnOut.before.active[k])

\* the trail holds one entry with the first 60 characters of the entry, and
\* that entry is of this capture: active with its timestamp, or superseded
\* by it
ReplacedNow(e) ==
    LET sameActive == { i \in 1..Len(fnOut.trail.active) :
                          Key60(fnOut.trail.active[i].description) = Key60(e.description) }
        sameSuperseded == { i \in 1..Len(fnOut.trail.superseded) :
                              Key60(fnOut.trail.superseded[i].description)
                                  = Key60(e.description) }
    IN  /\ Cardinality(sameActive) + Cardinality(sameSuperseded) = 1
        /\ \A i \in sameActive : fnOut.trail.active[i].timestamp = fnOut.step
        /\ \A i \in sameSuperseded : fnOut.trail.superseded[i].superseded_by = fnOut.step

\* C30, amended: the same, except that an entry which a decision of the
\* capture repeats (same first 60 characters, case-folded) is replaced by
\* that decision instead of being kept as superseded beside it.
C30_SupersededUnlessRepeated ==
    fnOut.fn = "writeDecisionTrail"
        => /\ OneActivePerTopic(fnOut.trail)
           /\ \A k \in Overridden :
                 /\ NewestIsActive(deriveTopic(fnOut.before.active[k].description))
                 /\ IF Repeated(fnOut.before.active[k])
                    THEN ReplacedNow(fnOut.before.active[k])
                    ELSE SupersededNow(fnOut.before.active[k])

\* a decision with the topic of an active entry and other words came: the
\* entry is superseded and the decision is active
C30_Witness ==
    /\ fnOut.fn = "writeDecisionTrail"
    /\ \E k \in Overridden :
          /\ ~Repeated(fnOut.before.active[k])
          /\ SupersededNow(fnOut.before.active[k])
          /\ NewestIsActive(deriveTopic(fnOut.before.active[k].description))

\* C31: an entry of the decision trail that is superseded is still in the
\* trail, as superseded, after every later capture.
C31_SupersededStay ==
    fnOut.fn = "writeDecisionTrail"
        => \A i \in 1..Len(fnOut.before.superseded) :
              \E j \in 1..Len(fnOut.trail.superseded) :
                  fnOut.trail.superseded[j].description
                      = fnOut.before.superseded[i].description

\* C32: the prior_snapshot_id of a stored snapshot is absent or names another
\* snapshot, one that was captured strictly earlier, so the links never lead
\* back to a snapshot.
C32_PriorIsEarlier ==
    \A id \in DOMAIN snapFiles :
        LET prior == snapFiles[id].prior_snapshot_id
        IN  prior # NoId =>
               /\ prior # id
               /\ prior \in DOMAIN snapFiles =>
                      snapFiles[prior].timestamp < snapFiles[id].timestamp

\* C33: after every storeSnapshot the total_snapshots of the catalog is the
\* number of its entries, also when the cap on active snapshots is reached.
C33_TotalIsLength ==
    fnOut.fn = "storeSnapshot"
        => fnOut.index.total_snapshots = Len(fnOut.index.snapshots)

\* C34: after any sequence of captures the catalog lists the snapshots most
\* recent first, and it has at most config.maxActiveSnapshots entries.
C34_CatalogCapped ==
    fnOut.fn = "storeSnapshot"
        => /\ \A i \in 1..Len(fnOut.index.snapshots) :
                 \A j \in i..Len(fnOut.index.snapshots) :
                     fnOut.index.snapshots[i].timestamp
                         >= fnOut.index.snapshots[j].timestamp
           /\ Len(fnOut.index.snapshots) <= config.maxActiveSnapshots

\* the catalog has an entry with the identifier
Listed(idx, id) == \E i \in 1..Len(idx.snapshots) : idx.snapshots[i].id = id

C36_HistoryBounded ==
    fnOut.fn = "resetForNewSession"
        => LET old == fnOut.before.session_history
               new == fnOut.state.session_history
           IN  /\ Len(new) <= 10
               /\ \A i \in 1..Len(new) : \A j \in i..Len(new) :
                      new[i].ended >= new[j].ended
               /\ fnOut.before.session_id = NoSession => new = old
               /\ fnOut.before.session_id # NoSession =>
                      /\ Len(new) = Min(Len(old) + 1, 10)
                      /\ new[1].session_id = fnOut.before.session_id
                      /\ new[1].ended = fnOut.t
                      /\ \A i \in 2..Len(new) : new[i] = old[i - 1]

\* a startup ended an active session whose history was full: the session is
\* in front and the oldest entry is gone
C36_Witness ==
    /\ fnOut.fn = "resetForNewSession"
    /\ fnOut.before.session_id # NoSession
    /\ Len(fnOut.before.session_history) = 10
    /\ Len(fnOut.state.session_history) = 10
    /\ fnOut.state.session_history[1].session_id = fnOut.before.session_id
    /\ \A i \in 1..10 :
          fnOut.state.session_history[i] # fnOut.before.session_history[10]

\* the snapshot has no files changed, no decisions and no open items, and
\* its trigger is not manual
Trivial(snapshot) ==
    /\ snapshot.files_changed = << >>
    /\ snapshot.decisions = << >>
    /\ snapshot.open_items = << >>
    /\ snapshot.trigger # "manual"

\* C37: a capture whose snapshot has no files changed, no decisions and no
\* open items and whose trigger is not manual stores the snapshot and its
\* catalog entry and leaves LATEST.md and what writeTrails writes as they
\* are; every other capture rewrites them from its snapshot.  No other step
\* of a capture touches them.
C37_TrivialCaptureKeepsArtifacts ==
    [][ /\ \A p \in Procs :
             (pc[p] = "cap_trails" /\ pc'[p] = "cap_save") =>
                 /\ loc[p].snap.snapshot_id \in DOMAIN snapFiles
                 /\ Listed(index, loc[p].snap.snapshot_id)
                 /\ IF Trivial(loc[p].snap)
                    THEN latestMd' = latestMd /\ contextMd' = contextMd
                    ELSE latestMd' = << loc[p].snap >> /\ contextMd' = << loc[p].snap >>
        /\ (\A p \in Procs : ~(pc[p] = "cap_trails" /\ pc'[p] = "cap_save")) =>
                 latestMd' = latestMd /\ contextMd' = contextMd
      ]_vars

\* a capture without content, not a manual one, has stored its snapshot and
\* left the LATEST.md of an earlier capture in place
C37_Witness ==
    \E p \in Procs :
        /\ pc[p] = "cap_save"
        /\ Trivial(loc[p].snap)
        /\ loc[p].snap.snapshot_id \in DOMAIN snapFiles
        /\ latestMd # << >>
        /\ latestMd[1] # loc[p].snap
        /\ contextMd = latestMd

\* the descriptions of the active and of the superseded entries of a trail
ActiveDescriptions(trail) ==
    { trail.active[k].description : k \in 1..Len(trail.active) }
SupersededDescriptions(trail) ==
    { trail.superseded[k].description : k \in 1..Len(trail.superseded) }

\* C38: a capture whose decisions are those of the capture before leaves the
\* set of active descriptions and the set of superseded descriptions of the
\* decision trail as they were.
C38_SameDecisionsSameTrail ==
    [][ (fnOut.fn = "writeDecisionTrail" /\ fnOut'.decisions = fnOut.decisions)
            => /\ ActiveDescriptions(fnOut'.trail) = ActiveDescriptions(fnOut.trail)
               /\ SupersededDescriptions(fnOut'.trail) = SupersededDescriptions(fnOut.trail)
      ]_vars

\* two decisions of one topic were captured twice: the trail of the first
\* capture, one active and one superseded entry, is the trail of the second
C38_Witness ==
    /\ fnOut.fn = "writeDecisionTrail"
    /\ fnOut.step = 2
    /\ Len(fnOut.decisions) = 2
    /\ fnOut.before = writeDecisionTrail(NoTrail, [ timestamp |-> 1,
                                                    decisions |-> fnOut.decisions ])
    /\ Len(fnOut.before.superseded) = 1
    /\ ActiveDescriptions(fnOut.trail) = ActiveDescriptions(fnOut.before)
    /\ SupersededDescriptions(fnOut.trail) = SupersededDescriptions(fnOut.before)

\* C39: the files that a capture extracts from the transcript are never more
\* than the configured maxFilesTracked (and likewise the other lists and
\* their caps).
C39_ListsWithinCaps ==
    \A k \in 1..Len(Chain) :
        Len(Chain[k].files_changed) <= config.maxFilesTracked

\* state.json is absent or its text is not JSON
Unreadable == ~statePresent \/ stateFile = UnparseableState

\* a state that has every field of BookmarkState, with values of its types
WellFormed(state) ==
    /\ DOMAIN state = DOMAIN defaultState
    /\ state.compaction_count \in Nat
    /\ state.current_threshold \in Nat
    /\ state.last_snapshot_time \in Nat
    /\ state.last_event_time \in Nat
    /\ DOMAIN state.session_history = 1..Len(state.session_history)

====
